---- MODULE Spec2Model ----
(***************************************************************************)
(* Mermaid rendering pipeline of the Obsidian -> Confluence plugin:        *)
(* SVGMermaidRendererPlugin (extract / transform / load) driving one of    *)
(* the MermaidRenderer implementations (MermaidCLIRenderer,                *)
(* SVGMermaidRenderer, MermaidInternalPNGRenderer, MermaidPNGRenderer).    *)
(*                                                                         *)
(* A document is the ordered content of the ADF root; a node is a record   *)
(* [type, attrs, content].  attrs is a function whose domain is the set of *)
(* attribute keys present; content is the sequence of children.  A file    *)
(* name is a record [stem, ext] (stem followed by the extension).  A value *)
(* that may be undefined or null in the source is a sequence of length at  *)
(* most one.                                                               *)
(***************************************************************************)
EXTENDS Integers, Sequences, FiniteSets, TLC

VARIABLES
    adf,            \* the document handed to extract and load
    renderer,       \* which MermaidRenderer the plugin was constructed with
    pc,             \* position of the publish run
    charts,         \* ChartData[] returned by extract
    chartIdx,       \* captureMermaidCharts: index of the next chart of the loop
    capturedCharts, \* captureMermaidCharts: the Map, as its entries in insertion order
    failedCharts,   \* indices of the charts whose render raised inside the loop
    tempDir,        \* scratch directory of the external-process renderers
    uploadIdx,      \* transform: index of the next Map entry to upload
    imageMap,       \* transform: Record<string, UploadedImageData | null>
    afterAdf,       \* the document returned by load
    uploadCalls,    \* the names uploadBuffer was called with, in call order
    tempFiles,      \* the files in the scratch directory
    cleanup,        \* finally block: what is left to do and what went wrong
    svgContent,     \* the text a renderer post-processes (svgContent, str)
    rawSvg,         \* the text as the tool or the library produced it
    colour,         \* the colour function a string handed to convertColors holds
    isSyncing,      \* ConfluencePlugin.isSyncing
    folderToPublish,\* ConfluencePlugin.settings.folderToPublish
    activeFile,     \* the file of the active markdown view, if there is one
    frontmatter,    \* the frontmatter of each note of the vault
    publishes,      \* the doPublish calls made, each with how far it has come
    notice,         \* the text of the Notice the last command showed, if any
    command         \* the last command run, and the file it ran on

\* the variables of the scratch directory and of the text post-processing,
\* which the steps of the publish run below leave alone
\* the variables of ConfluencePlugin, which the renderers and
\* SVGMermaidRendererPlugin leave alone
pluginVars ==
    <<isSyncing, folderToPublish, activeFile, frontmatter, publishes, notice, command>>

detailVars == <<tempFiles, cleanup, svgContent, rawSvg, colour, pluginVars>>

vars == <<adf, renderer, pc, charts, chartIdx, capturedCharts, failedCharts,
          tempDir, uploadIdx, imageMap, afterAdf, uploadCalls, detailVars>>

\* Longest document content that is explored.
MaxNodes == 3

----------------------------------------------------------------------------
(* Generic helpers                                                         *)

Range(s) == {s[i] : i \in 1..Len(s)}

SeqsUpTo(S, n) == UNION {[1..k -> S] : k \in 0..n}

\* Array.prototype.filter
RECURSIVE SelectSeqRec(_, _)
SelectSeqRec(s, keep) ==
    IF s = <<>> THEN <<>>
    ELSE IF Head(s) \in keep THEN <<Head(s)>> \o SelectSeqRec(Tail(s), keep)
         ELSE SelectSeqRec(Tail(s), keep)

----------------------------------------------------------------------------
(* Document nodes                                                          *)

MermaidTexts == {"graph TD;A-->B", "sequenceDiagram;A->>B"}

TextChild(t) == [type |-> "text", text |-> t]

CodeBlock(lang, children) ==
    [type |-> "codeBlock", attrs |-> [k \in {"language"} |-> lang], content |-> children]

Paragraph(children) ==
    [type |-> "paragraph", attrs |-> [k \in {} |-> ""], content |-> children]

NodeKinds ==
    {CodeBlock("mermaid", <<TextChild(t)>>) : t \in MermaidTexts}
    \cup {CodeBlock("mermaid", <<>>),
          CodeBlock("javascript", <<TextChild("graph TD;A-->B")>>),
          Paragraph(<<TextChild("graph TD;A-->B")>>)}

Documents == SeqsUpTo(NodeKinds, MaxNodes)

\* node?.attrs?.["language"] === "mermaid"
HasLanguageMermaid(node) ==
    "language" \in DOMAIN node.attrs /\ node.attrs["language"] = "mermaid"

\* node.type == "codeBlock" && (node.attrs || {})?.["language"] === "mermaid"
IsMermaidNode(node) == node.type = "codeBlock" /\ HasLanguageMermaid(node)

\* node?.content?.at(0)?.text : <<>> when undefined
FirstText(node) ==
    IF Len(node.content) > 0 /\ "text" \in DOMAIN node.content[1]
    THEN <<node.content[1].text>>
    ELSE <<>>

----------------------------------------------------------------------------
(* getMermaidFileNameSVG                                                   *)

MissingChartText == "flowchart LR\nid1[Missing Chart]"

\* SparkMD5.hash on the texts of the model (the real digests).
SparkMD5hash(text) ==
    CASE text = "graph TD;A-->B" -> "fb7568fd4857f7fed09a604bdf229db1"
      [] text = "sequenceDiagram;A->>B" -> "17a1108bed8dd4fcdb786d85bf85867e"
      [] text = MissingChartText -> "669b674ca84d35caf26516b640f793ac"
      [] text = "" -> "d41d8cd98f00b204e9800998ecf8427e"

getMermaidFileNameSVG(mermaidContent) ==
    LET mermaidText == IF mermaidContent = <<>> THEN MissingChartText
                       ELSE mermaidContent[1]
        pathMd5 == SparkMD5hash(mermaidText)
    IN [uploadFilename |-> [stem |-> "RenderedMermaidChart-" \o pathMd5, ext |-> ".svg"],
        mermaidText |-> mermaidText]

----------------------------------------------------------------------------
(* SVGMermaidRendererPlugin.extract                                        *)

\* filter(adf, predicate): the matching nodes in traversal order
MermaidNodes(doc) == SelectSeqRec(doc, {n \in Range(doc) : IsMermaidNode(n)})

\* mermaidNodes.map(...): every call of the arrow function creates a new
\* object; ref is the identity of that object, val its fields.
MapToChartData(nodes) ==
    [i \in 1..Len(nodes) |->
        [ref |-> i,
         val |-> LET d == getMermaidFileNameSVG(FirstText(nodes[i]))
                 IN [name |-> d.uploadFilename, data |-> d.mermaidText]]]

\* new Set(iterable): an element is dropped when the Set already holds the
\* same value; for objects that is the same reference.
RECURSIVE NewSet(_)
NewSet(objs) ==
    IF objs = <<>> THEN <<>>
    ELSE LET init == NewSet(SubSeq(objs, 1, Len(objs) - 1))
             last == objs[Len(objs)]
         IN IF \E j \in 1..Len(init) : init[j].ref = last.ref
            THEN init ELSE Append(init, last)

\* Array.from(set)
ArrayFrom(set) == [i \in 1..Len(set) |-> set[i].val]

extract(doc) == ArrayFrom(NewSet(MapToChartData(MermaidNodes(doc))))

----------------------------------------------------------------------------
(* Map<string, Buffer> and Record<string, UploadedImageData | null>        *)

\* Map.prototype.set: an existing key keeps its position, a new key is appended
MapSet(map, key, val) ==
    IF \E j \in 1..Len(map) : map[j].key = key
    THEN [j \in 1..Len(map) |-> IF map[j].key = key THEN [key |-> key, val |-> val]
                                ELSE map[j]]
    ELSE Append(map, [key |-> key, val |-> val])

MapKeys(map) == {map[j].key : j \in 1..Len(map)}

MapHas(map, key) == key \in MapKeys(map)

MapGet(map, key) == (CHOOSE e \in Range(map) : e.key = key).val

\* { ...imageMap, [key]: value }
RecordSpread(rec, key, val) ==
    [k \in DOMAIN rec \cup {key} |-> IF k = key THEN val ELSE rec[k]]

\* imageMap[key]: <<>> when the key is absent (undefined) or mapped to null
RecordGet(rec, key) == IF key \in DOMAIN rec THEN rec[key] ELSE <<>>

EmptyRecord == [k \in {} |-> <<>>]

----------------------------------------------------------------------------
(* Buffers stored by the renderers.  A buffer is [kind, data, label]: the   *)
(* image format, the diagram source it was rendered from, and the file     *)
(* name written into an error placeholder.                                 *)

NoName == [stem |-> "", ext |-> ""]

\* the SVG the CLI renderer stores after post-processing the tool's output
\* and the SVG the embedded library renderer stores
RenderedSvg(chart) == [kind |-> "svg", data |-> chart.data, label |-> NoName]

\* errorSvg: 400x100 placeholder with "Error rendering chart: ${chart.name}"
ErrorSvg(chart) == [kind |-> "errorSvg", data |-> "", label |-> chart.name]

\* the PNG read back from the tool or encoded from the canvas
RenderedPng(chart) == [kind |-> "png", data |-> chart.data, label |-> NoName]

\* errorPng: the fixed 1x1 transparent pixel
ErrorPng == [kind |-> "errorPng", data |-> "", label |-> NoName]

\* name.replace(/\.svg$/, '.png')
ReplaceSvgWithPng(name) ==
    IF name.ext = ".svg" THEN [name EXCEPT !.ext = ".png"] ELSE name

\* MermaidCLIRenderer constructed with a mermaidConfig that names a theme (the
\* version of the class that takes one)
ThemedCliRenderer == "MermaidCLIRenderer (mermaidConfig.theme)"

SvgRenderers == {"MermaidCLIRenderer", "SVGMermaidRenderer", ThemedCliRenderer}
PngRenderers == {"MermaidInternalPNGRenderer", "MermaidPNGRenderer"}
\* the renderers that spawn mermaid-cli in a scratch directory
ProcessRenderers == {"MermaidCLIRenderer", "MermaidPNGRenderer"}
\* the renderers that call the mermaid library loaded from the host
LibraryRenderers == {"SVGMermaidRenderer", "MermaidInternalPNGRenderer"}

\* the try block of the loop body ran to its end: capturedCharts.set(...)
StoreRendered(r, map, chart) ==
    IF r \in SvgRenderers
    THEN MapSet(map, chart.name, RenderedSvg(chart))
    ELSE MapSet(map, ReplaceSvgWithPng(chart.name), RenderedPng(chart))

\* Mutant of StorePlaceholder: the catch block only logs the error.
StorePlaceholder_LogOnly(r, map, chart) == map

\* Mutant of StorePlaceholder: the catch block of a PNG renderer stores the
\* placeholder under chart.name, without renaming it.
StorePlaceholder_SvgName(r, map, chart) ==
    IF r \in SvgRenderers
    THEN MapSet(map, chart.name, ErrorSvg(chart))
    ELSE MapSet(map, chart.name, ErrorPng)

\* the catch block of the loop body: capturedCharts.set(..., placeholder)
StorePlaceholder(r, map, chart) ==
    IF r \in SvgRenderers
    THEN MapSet(map, chart.name, ErrorSvg(chart))
    ELSE MapSet(map, ReplaceSvgWithPng(chart.name), ErrorPng)

----------------------------------------------------------------------------
(* SVGMermaidRendererPlugin.load                                           *)

SetAttr(attrs, key, val) ==
    [k \in DOMAIN attrs \cup {key} |-> IF k = key THEN val ELSE attrs[k]]

DeleteAttr(attrs, key) == [k \in DOMAIN attrs \ {key} |-> attrs[k]]

MediaChild(mappedImage) ==
    [type |-> "media",
     attrs |-> [type |-> "file",
                collection |-> mappedImage.collection,
                id |-> mappedImage.id,
                width |-> mappedImage.width,
                height |-> mappedImage.height]]

\* Mutant of RewriteNode: the language attribute is not deleted.
RewriteNode_KeepsLanguage(node, mappedImage) ==
    [type |-> "mediaSingle",
     attrs |-> SetAttr(node.attrs, "layout", "center"),
     content |-> <<MediaChild(mappedImage)>>]

\* Mutant of RewriteNode: the media child is pushed onto the content of the
\* code block, which keeps its type and its text.
RewriteNode_AppendsMedia(node, mappedImage) ==
    [type |-> node.type,
     attrs |-> SetAttr(node.attrs, "layout", "center"),
     content |-> node.content \o <<MediaChild(mappedImage)>>]

\* lines 107-124: the node the visitor returns for a mapped image (content
\* <<>> stands for a node without content, which is left without content)
RewriteNode(node, mappedImage) ==
    [type |-> "mediaSingle",
     attrs |-> DeleteAttr(SetAttr(node.attrs, "layout", "center"), "language"),
     content |-> IF Len(node.content) > 0 THEN <<MediaChild(mappedImage)>>
                 ELSE node.content]

\* Mutant of LoadFilename: no early return for a block without text, the
\* placeholder-text rule of getMermaidFileNameSVG names it.
LoadFilename_PlaceholderRule(node) ==
    <<getMermaidFileNameSVG(FirstText(node)).uploadFilename>>

\* the name load looks up for a node: <<>> when it returns before computing one
LoadFilename(node) ==
    LET mermaidContent == FirstText(node)
    IN IF mermaidContent = <<>> \/ mermaidContent[1] = "" THEN <<>>
       ELSE <<getMermaidFileNameSVG(mermaidContent).uploadFilename>>

\* Mutant of CodeBlockVisitor: the node is retyped before the image is looked
\* up, and returned whether or not an image is mapped.
CodeBlockVisitor_RetypesFirst(node, map) ==
    IF HasLanguageMermaid(node)
    THEN LET mermaidFilename == LoadFilename(node)
         IN IF mermaidFilename = <<>> THEN <<>>
            ELSE LET mappedImage == RecordGet(map, mermaidFilename[1])
                 IN IF mappedImage = <<>>
                    THEN <<[node EXCEPT !.type = "mediaSingle"]>>
                    ELSE <<RewriteNode(node, mappedImage[1])>>
    ELSE <<>>

\* Mutant of CodeBlockVisitor: the language of the code block is not tested.
CodeBlockVisitor_AnyLanguage(node, map) ==
    LET mermaidFilename == LoadFilename(node)
    IN IF mermaidFilename = <<>> THEN <<>>
       ELSE LET mappedImage == RecordGet(map, mermaidFilename[1])
            IN IF mappedImage = <<>> THEN <<>>
               ELSE <<RewriteNode(node, mappedImage[1])>>

\* the codeBlock visitor: <<>> when it returns undefined, else <<returned node>>
CodeBlockVisitor(node, map) ==
    IF HasLanguageMermaid(node)
    THEN LET mermaidFilename == LoadFilename(node)
         IN IF mermaidFilename = <<>> THEN <<>>
            ELSE LET mappedImage == RecordGet(map, mermaidFilename[1])
                 IN IF mappedImage = <<>> THEN <<>>
                    ELSE <<RewriteNode(node, mappedImage[1])>>
    ELSE <<>>

\* traverse(adf, {codeBlock: visitor}): a node of a type with a visitor is
\* replaced by what the visitor returns, and kept when it returns undefined
TraverseNode(node, map) ==
    IF node.type = "codeBlock"
    THEN LET processed == CodeBlockVisitor(node, map)
         IN IF processed = <<>> THEN node ELSE processed[1]
    ELSE node

load(doc, map) == [i \in 1..Len(doc) |-> TraverseNode(doc[i], map)]

----------------------------------------------------------------------------
(* Inputs of the environment                                               *)

\* what uploadBuffer can resolve to when it uploads
UploadedImages ==
    {[collection |-> "c1", id |-> "a1", width |-> 100, height |-> 50],
     [collection |-> "c2", id |-> "a2", width |-> 640, height |-> 480]}

ChartNames ==
    {getMermaidFileNameSVG(<<t>>).uploadFilename : t \in MermaidTexts}
    \cup {getMermaidFileNameSVG(<<>>).uploadFilename}

\* image maps handed to load when it is called on its own
ImageMaps ==
    UNION {[D -> {<<>>} \cup {<<u>> : u \in UploadedImages}] : D \in SUBSET ChartNames}

----------------------------------------------------------------------------

\* no string has been handed to convertColors
NoColour == [fn |-> "", args |-> <<>>, alpha |-> "", space |-> "", before |-> "", after |-> ""]

\* the finally block has not been entered
NoCleanup == [stage |-> "none", files |-> {}, built |-> <<>>]

\* ConfluencePlugin as constructed (isSyncing = false), no command run yet
PluginConstructed ==
    /\ isSyncing = FALSE
    /\ folderToPublish = ""
    /\ activeFile = <<>>
    /\ frontmatter = <<>>
    /\ publishes = <<>>
    /\ notice = ""
    /\ command = <<>>

Renderers == {"MermaidCLIRenderer", "SVGMermaidRenderer",
              "MermaidInternalPNGRenderer", "MermaidPNGRenderer"}

Init ==
    /\ PluginConstructed
    /\ adf \in Documents
    /\ renderer \in Renderers
    /\ pc = "start"
    /\ charts = <<>>
    /\ chartIdx = 1
    /\ capturedCharts = <<>>
    /\ failedCharts = {}
    /\ tempDir = "none"
    /\ uploadIdx = 1
    /\ imageMap = EmptyRecord
    /\ afterAdf = <<>>
    /\ uploadCalls = <<>>
    /\ tempFiles = {}
    /\ cleanup = NoCleanup
    /\ svgContent = ""
    /\ rawSvg = ""
    /\ colour = NoColour

\* extract(adf)
Extract ==
    /\ pc = "start"
    /\ charts' = extract(adf)
    /\ pc' = "extracted"
    /\ UNCHANGED <<adf, renderer, chartIdx, capturedCharts, failedCharts, tempDir,
                   uploadIdx, imageMap, afterAdf>>
    /\ UNCHANGED <<uploadCalls, detailVars>>

\* Mutant of TransformEmpty: no early return, the renderer is called with the
\* empty array.
TransformEmpty_CallsRenderer ==
    /\ pc = "extracted"
    /\ Len(charts) = 0
    /\ pc' = "capture"
    /\ UNCHANGED <<adf, renderer, charts, chartIdx, capturedCharts, failedCharts,
                   tempDir, uploadIdx, imageMap, afterAdf>>
    /\ UNCHANGED <<uploadCalls, detailVars>>

\* transform, lines 59-62: nothing to render, the empty image map is returned
TransformEmpty ==
    /\ pc = "extracted"
    /\ Len(charts) = 0
    /\ imageMap' = EmptyRecord
    /\ pc' = "transformed"
    /\ UNCHANGED <<adf, renderer, charts, chartIdx, capturedCharts, failedCharts,
                   tempDir, uploadIdx, afterAdf>>
    /\ UNCHANGED <<uploadCalls, detailVars>>

\* transform, lines 64-67: captureMermaidCharts([...mermaidNodesToUpload]) is called
TransformCallsRenderer ==
    /\ pc = "extracted"
    /\ Len(charts) # 0
    /\ pc' = "capture"
    /\ UNCHANGED <<adf, renderer, charts, chartIdx, capturedCharts, failedCharts,
                   tempDir, uploadIdx, imageMap, afterAdf>>
    /\ UNCHANGED <<uploadCalls, detailVars>>

\* captureMermaidCharts before the loop: fs.mkdtemp resolves, or loadMermaid
\* and mermaid.initialize return
CaptureSetup ==
    /\ pc = "capture"
    /\ tempDir' = IF renderer \in ProcessRenderers THEN "exists" ELSE tempDir
    /\ capturedCharts' = <<>>
    /\ chartIdx' = 1
    /\ pc' = "capture_loop"
    /\ UNCHANGED <<adf, renderer, charts, failedCharts, uploadIdx, imageMap, afterAdf>>
    /\ UNCHANGED <<uploadCalls, detailVars>>

\* captureMermaidCharts before the loop: fs.mkdtemp rejects, or loadMermaid /
\* mermaid.initialize throws; no try block encloses them, so the promise of
\* captureMermaidCharts rejects and with it the promise of transform
CaptureSetupThrows ==
    /\ pc = "capture"
    /\ pc' = "capture_rejected"
    /\ UNCHANGED <<adf, renderer, charts, chartIdx, capturedCharts, failedCharts,
                   tempDir, uploadIdx, imageMap, afterAdf>>
    /\ UNCHANGED <<uploadCalls, detailVars>>

\* one iteration of the loop whose try block runs to its end
CaptureChart ==
    /\ pc = "capture_loop"
    /\ chartIdx <= Len(charts)
    /\ capturedCharts' = StoreRendered(renderer, capturedCharts, charts[chartIdx])
    /\ chartIdx' = chartIdx + 1
    /\ UNCHANGED <<adf, renderer, pc, charts, failedCharts, tempDir, uploadIdx,
                   imageMap, afterAdf>>
    /\ UNCHANGED <<uploadCalls, detailVars>>

\* one iteration of the loop in which a statement of the try block throws
\* (writeFile, the tool, readFile, the parser, mermaid.render, the canvas)
CaptureChartFails ==
    /\ pc = "capture_loop"
    /\ chartIdx <= Len(charts)
    /\ capturedCharts' = StorePlaceholder(renderer, capturedCharts, charts[chartIdx])
    /\ failedCharts' = failedCharts \cup {chartIdx}
    /\ chartIdx' = chartIdx + 1
    /\ UNCHANGED <<adf, renderer, pc, charts, tempDir, uploadIdx, imageMap, afterAdf>>
    /\ UNCHANGED <<uploadCalls, detailVars>>

\* the loop is over; finally block of the external-process renderers removes
\* the files and the directory, then the Map is returned
CaptureCleanupReturn ==
    /\ pc = "capture_loop"
    /\ chartIdx > Len(charts)
    /\ renderer \in ProcessRenderers
    /\ tempDir' = "removed"
    /\ uploadIdx' = 1
    /\ pc' = "uploading"
    /\ UNCHANGED <<adf, renderer, charts, chartIdx, capturedCharts, failedCharts,
                   imageMap, afterAdf>>
    /\ UNCHANGED <<uploadCalls, detailVars>>

\* the same, with readdir, unlink or rmdir rejecting: the inner catch logs a
\* warning and the Map is returned
CaptureCleanupFailsReturn ==
    /\ pc = "capture_loop"
    /\ chartIdx > Len(charts)
    /\ renderer \in ProcessRenderers
    /\ tempDir' = "exists"
    /\ uploadIdx' = 1
    /\ pc' = "uploading"
    /\ UNCHANGED <<adf, renderer, charts, chartIdx, capturedCharts, failedCharts,
                   imageMap, afterAdf>>
    /\ UNCHANGED <<uploadCalls, detailVars>>

\* the loop is over in a renderer without scratch directory: the Map is returned
CaptureReturn ==
    /\ pc = "capture_loop"
    /\ chartIdx > Len(charts)
    /\ renderer \in LibraryRenderers
    /\ uploadIdx' = 1
    /\ pc' = "uploading"
    /\ UNCHANGED <<adf, renderer, charts, chartIdx, capturedCharts, failedCharts,
                   tempDir, imageMap, afterAdf>>
    /\ UNCHANGED <<uploadCalls, detailVars>>

\* transform, lines 69-79: uploadBuffer resolves to the uploaded image
Upload ==
    /\ pc = "uploading"
    /\ uploadIdx <= Len(capturedCharts)
    /\ \E uploadedContent \in UploadedImages :
          imageMap' = RecordSpread(imageMap, capturedCharts[uploadIdx].key,
                                   <<uploadedContent>>)
    /\ uploadIdx' = uploadIdx + 1
    /\ UNCHANGED <<adf, renderer, pc, charts, chartIdx, capturedCharts, failedCharts,
                   tempDir, afterAdf>>
    /\ uploadCalls' = Append(uploadCalls, capturedCharts[uploadIdx].key)
    /\ UNCHANGED detailVars

\* transform, lines 69-79: uploadBuffer resolves to null
UploadNull ==
    /\ pc = "uploading"
    /\ uploadIdx <= Len(capturedCharts)
    /\ imageMap' = RecordSpread(imageMap, capturedCharts[uploadIdx].key, <<>>)
    /\ uploadIdx' = uploadIdx + 1
    /\ UNCHANGED <<adf, renderer, pc, charts, chartIdx, capturedCharts, failedCharts,
                   tempDir, afterAdf>>
    /\ uploadCalls' = Append(uploadCalls, capturedCharts[uploadIdx].key)
    /\ UNCHANGED detailVars

\* transform, line 70: uploadBuffer rejects; the await is in no try block, so
\* the promise of transform rejects
UploadThrows ==
    /\ pc = "uploading"
    /\ uploadIdx <= Len(capturedCharts)
    /\ pc' = "upload_rejected"
    /\ UNCHANGED <<adf, renderer, charts, chartIdx, capturedCharts, failedCharts,
                   tempDir, uploadIdx, imageMap, afterAdf>>
    /\ uploadCalls' = Append(uploadCalls, capturedCharts[uploadIdx].key)
    /\ UNCHANGED detailVars

\* a transform that returns its image map while entries are still to upload
TransformReturn_BeforeLastUpload ==
    /\ pc = "uploading"
    /\ uploadIdx >= Len(capturedCharts)
    /\ pc' = "transformed"
    /\ UNCHANGED <<adf, renderer, charts, chartIdx, capturedCharts, failedCharts,
                   tempDir, uploadIdx, imageMap, afterAdf>>
    /\ UNCHANGED <<uploadCalls, detailVars>>

\* transform, line 81: return imageMap
TransformReturn ==
    /\ pc = "uploading"
    /\ uploadIdx > Len(capturedCharts)
    /\ pc' = "transformed"
    /\ UNCHANGED <<adf, renderer, charts, chartIdx, capturedCharts, failedCharts,
                   tempDir, uploadIdx, imageMap, afterAdf>>
    /\ UNCHANGED <<uploadCalls, detailVars>>

\* load(adf, imageMap) with the image map transform returned
Load ==
    /\ pc = "transformed"
    /\ afterAdf' = load(adf, imageMap)
    /\ pc' = "done"
    /\ UNCHANGED <<adf, renderer, charts, chartIdx, capturedCharts, failedCharts,
                   tempDir, uploadIdx, imageMap>>
    /\ UNCHANGED <<uploadCalls, detailVars>>

\* load(adf, imageMap) called on its own with an image map of the caller
LoadAlone ==
    /\ pc = "start"
    /\ \E map \in ImageMaps : imageMap' = map /\ afterAdf' = load(adf, map)
    /\ pc' = "loaded"
    /\ UNCHANGED <<adf, renderer, charts, chartIdx, capturedCharts, failedCharts,
                   tempDir, uploadIdx>>
    /\ UNCHANGED <<uploadCalls, detailVars>>

\* load called once more, on the document it returned and with the same
\* image map
LoadAgain ==
    /\ pc = "loaded"
    /\ afterAdf' = load(afterAdf, imageMap)
    /\ pc' = "loaded_again"
    /\ UNCHANGED <<adf, renderer, charts, chartIdx, capturedCharts, failedCharts,
                   tempDir, uploadIdx, imageMap>>
    /\ UNCHANGED <<uploadCalls, detailVars>>

Next ==
    \/ Extract
    \/ TransformEmpty
    \/ TransformCallsRenderer
    \/ CaptureSetup
    \/ CaptureSetupThrows
    \/ CaptureChart
    \/ CaptureChartFails
    \/ CaptureCleanupReturn
    \/ CaptureCleanupFailsReturn
    \/ CaptureReturn
    \/ Upload
    \/ UploadNull
    \/ UploadThrows
    \/ TransformReturn
    \/ Load
    \/ LoadAlone
    \/ LoadAgain

Spec == Init /\ [][Next]_vars

----------------------------------------------------------------------------
(* Vocabulary of the properties                                            *)

\* captureMermaidCharts was called and has returned its Map
CaptureReturned ==
    \/ pc \in {"uploading", "upload_rejected"}
    \/ pc \in {"transformed", "done"} /\ Len(charts) > 0

\* extract has returned
Extracted == pc \notin {"start", "loaded", "loaded_again"}

\* load has returned
Loaded == pc \in {"done", "loaded"}

InputNames == {charts[i].name : i \in 1..Len(charts)}

DiagramNodes == {i \in 1..Len(adf) :
                    /\ adf[i].type = "codeBlock"
                    /\ "language" \in DOMAIN adf[i].attrs
                    /\ adf[i].attrs["language"] = "mermaid"}

EmptyDiagramNodes == {i \in DiagramNodes : adf[i].content = <<>>}

TextDiagramNodes == DiagramNodes \ EmptyDiagramNodes

\* prefix + hash of the source text + .svg
SvgNameOf(text) == [stem |-> "RenderedMermaidChart-" \o SparkMD5hash(text), ext |-> ".svg"]

PngNameOf(text) == [stem |-> "RenderedMermaidChart-" \o SparkMD5hash(text), ext |-> ".png"]

SourceText(i) == adf[i].content[1].text

\* what the image map holds for a name: "absent", "null" or "image"
Mapped(name) ==
    IF name \notin DOMAIN imageMap THEN "absent"
    ELSE IF imageMap[name] = <<>> THEN "null" ELSE "image"

----------------------------------------------------------------------------
(* C1 *)

\* C1 as stated: whatever items fail, the key set of the Map returned by
\* captureMermaidCharts equals the set of names of the input items, for every
\* renderer.
C1_KeysEqualInputNames == CaptureReturned => MapKeys(capturedCharts) = InputNames

\* C1 amended: whatever items fail, the key set of the returned Map equals the
\* set of input names for the SVG renderers, and the set of input names with
\* .svg replaced by .png for the PNG renderers.
C1_KeysCoverInput ==
    CaptureReturned =>
        MapKeys(capturedCharts) =
            IF renderer \in SvgRenderers THEN InputNames
            ELSE {[stem |-> n.stem, ext |-> ".png"] : n \in InputNames}

C1_Witness ==
    /\ CaptureReturned
    /\ renderer = "MermaidInternalPNGRenderer"
    /\ Cardinality(InputNames) = 3
    /\ Cardinality(failedCharts) = 1

----------------------------------------------------------------------------
(* C2 *)

\* C2: in the Map an SVG renderer returns for the diagrams of a document (here
\* one whose diagram blocks all have text), the entry of an item whose render
\* failed is the error placeholder carrying the item's name, and the entry of
\* every other item is its own render, as if nothing had failed.
C2_FailureIsolation ==
    CaptureReturned /\ renderer \in SvgRenderers /\ EmptyDiagramNodes = {} =>
        \A i \in 1..Len(charts) :
            /\ MapHas(capturedCharts, charts[i].name)
            /\ MapGet(capturedCharts, charts[i].name) =
                  IF i \in failedCharts
                  THEN [kind |-> "errorSvg", data |-> "", label |-> charts[i].name]
                  ELSE [kind |-> "svg", data |-> charts[i].data, label |-> NoName]

----------------------------------------------------------------------------
(* C3 *)

\* C3: the ChartData[] extract returns holds exactly one entry for the source
\* text of a mermaid code block, however many blocks share that text.
C3_Dedup ==
    Extracted =>
        \A i \in TextDiagramNodes :
            Cardinality({j \in 1..Len(charts) : charts[j].data = SourceText(i)}) = 1

----------------------------------------------------------------------------
(* C4 *)

\* C4 as stated: a mermaid code block without text child contributes no
\* ChartData (extract returns at most one entry per block that has text, none
\* when every diagram block is empty), and load leaves the node unchanged.
C4_EmptyBlockSkipped ==
    /\ Extracted =>
          /\ Len(charts) <= Cardinality(TextDiagramNodes)
          /\ (TextDiagramNodes = {} => Len(charts) = 0)
    /\ pc = "done" => \A i \in EmptyDiagramNodes : afterAdf[i] = adf[i]

\* C4 amended: a mermaid code block without text child contributes the
\* ChartData of the placeholder text (a document whose only diagram block is
\* empty yields one entry), and load leaves the node unchanged.
C4_EmptyBlockPlaceholder ==
    /\ Extracted =>
          /\ \A i \in EmptyDiagramNodes :
                \E j \in 1..Len(charts) :
                    charts[j] = [name |-> SvgNameOf("flowchart LR\nid1[Missing Chart]"),
                                 data |-> "flowchart LR\nid1[Missing Chart]"]
          /\ (Cardinality(DiagramNodes) = 1 /\ TextDiagramNodes = {} => Len(charts) = 1)
    /\ Loaded => \A i \in EmptyDiagramNodes : afterAdf[i] = adf[i]

C4_Witness ==
    /\ pc = "done"
    /\ Cardinality(DiagramNodes) = 1
    /\ EmptyDiagramNodes # {}
    /\ Len(charts) = 1
    /\ Mapped(SvgNameOf("flowchart LR\nid1[Missing Chart]")) = "image"

----------------------------------------------------------------------------
(* C5 *)

\* C5: for every mermaid code block, with or without text child, the name
\* load computes for the lookup is the name extract produced for the block.
C5_NameStability ==
    pc = "done" =>
        \A i \in DiagramNodes :
            /\ LoadFilename(adf[i]) # <<>>
            /\ LoadFilename(adf[i])[1] \in InputNames
            /\ LoadFilename(adf[i])[1] =
                  getMermaidFileNameSVG(FirstText(adf[i])).uploadFilename

----------------------------------------------------------------------------
(* C6 *)

\* C6: load leaves unchanged every mermaid code block whose name (prefix +
\* hash of its text, or of the placeholder text when it has none + .svg) is
\* absent from the image map or mapped to null; with the empty image map
\* every diagram node of the result is identical to the input.
C6_RewriteFailSoft ==
    Loaded =>
        /\ Len(afterAdf) = Len(adf)
        /\ \A i \in TextDiagramNodes :
              Mapped(SvgNameOf(SourceText(i))) \in {"absent", "null"}
                  => afterAdf[i] = adf[i]
        /\ \A i \in EmptyDiagramNodes :
              Mapped(SvgNameOf("flowchart LR\nid1[Missing Chart]")) \in {"absent", "null"}
                  => afterAdf[i] = adf[i]
        /\ (imageMap = EmptyRecord => \A i \in DiagramNodes : afterAdf[i] = adf[i])

C6_Witness ==
    /\ pc = "done"
    /\ \E i, j \in TextDiagramNodes :
          /\ Mapped(SvgNameOf(SourceText(i))) = "null"
          /\ afterAdf[i] = adf[i]
          /\ Mapped(SvgNameOf(SourceText(j))) = "image"
          /\ afterAdf[j] # adf[j]

----------------------------------------------------------------------------
(* C7 *)

----------------------------------------------------------------------------
(* C8 *)

\* C8: load leaves unchanged every node that is not a mermaid code block,
\* whatever the image map holds.
C8_OtherNodesUnchanged ==
    Loaded =>
        \A i \in (1..Len(adf)) \ DiagramNodes :
            i \in 1..Len(afterAdf) /\ afterAdf[i] = adf[i]

C8_Witness ==
    /\ Loaded
    /\ \E i, j, k \in 1..Len(adf) :
          /\ adf[i].type = "codeBlock" /\ i \notin DiagramNodes
          /\ Mapped(SvgNameOf(SourceText(i))) = "image"
          /\ afterAdf[i] = adf[i]
          /\ adf[j].type = "paragraph" /\ afterAdf[j] = adf[j]
          /\ k \in DiagramNodes /\ afterAdf[k].type = "mediaSingle"

----------------------------------------------------------------------------
(* C9 *)

\* C9: when an upload returns null or throws, transform still completes, the
\* node of that item is left unrewritten and the nodes of the items whose
\* upload succeeded are rewritten.
C9_UploadFailSoft ==
    /\ pc # "upload_rejected"
    /\ pc = "done" /\ renderer \in SvgRenderers =>
          \A i \in TextDiagramNodes :
              /\ Mapped(SvgNameOf(SourceText(i))) # "absent"
              /\ Mapped(SvgNameOf(SourceText(i))) = "null" => afterAdf[i] = adf[i]
              /\ Mapped(SvgNameOf(SourceText(i))) = "image"
                    => afterAdf[i].type = "mediaSingle"

----------------------------------------------------------------------------
(* C10 *)

\* C10: a call of captureMermaidCharts never raises, also when creating the
\* scratch directory or loading the embedded renderer fails.
C10_RenderNeverRaises == pc # "capture_rejected"

----------------------------------------------------------------------------
(* captureMermaidCharts of the external-process renderers, with the files   *)
(* of the scratch directory                                                 *)

\* the variables captureMermaidCharts does not touch
callerVars ==
    <<adf, uploadIdx, imageMap, afterAdf, uploadCalls, svgContent, rawSvg, colour,
      pluginVars>>

\* chart.name.replace(/\.svg$/, '') and chartName.replace(/\.png$/, '')
StripExtension(name, ext) ==
    IF name.ext = ext THEN name.stem ELSE name.stem \o name.ext

\* Mutant of BaseName: the files of every chart are named after the prefix of
\* the chart names, without the hash.
BaseName_PrefixOnly(r, name) == "RenderedMermaidChart"

\* baseName of the loop body
BaseName(r, name) ==
    IF r = "MermaidPNGRenderer"
    THEN StripExtension(ReplaceSvgWithPng(name), ".png")
    ELSE StripExtension(name, ".svg")

\* inputFile: path.join(tempDir, `${baseName}.mmd`)
InputFile(r, name) == [stem |-> BaseName(r, name), ext |-> ".mmd"]

\* outputFile: path.join(tempDir, `${baseName}.svg`) or `${baseName}.png`
OutputFile(r, name) ==
    [stem |-> BaseName(r, name),
     ext |-> IF r = "MermaidPNGRenderer" THEN ".png" ELSE ".svg"]

\* configFile: path.join(tempDir, 'config.json'), written in every iteration
\* when the mermaidConfig names a theme
ConfigFiles(r) ==
    IF r = ThemedCliRenderer THEN {[stem |-> "config", ext |-> ".json"]} ELSE {}

\* the statements of the try block that can reject or throw
FailStages(r) ==
    IF r = "MermaidPNGRenderer" THEN {"writeFile", "exec", "readFile"}
    ELSE IF r = ThemedCliRenderer THEN {"writeFile", "writeConfig", "exec", "readFile"}
    ELSE {"writeFile", "exec", "readFile", "JSDOM"}

\* the files an iteration has put into the directory when a stage fails:
\* nothing when writeFile rejects, the input file when the write of the
\* config file rejects, the input file and the config file when the tool
\* fails or leaves no output to read, these and the output file when the
\* output does not parse
FilesWritten(r, name, stage) ==
    CASE stage = "writeFile" -> {}
      [] stage = "writeConfig" -> {InputFile(r, name)}
      [] stage \in {"exec", "readFile"} -> {InputFile(r, name)} \cup ConfigFiles(r)
      [] OTHER -> {InputFile(r, name), OutputFile(r, name)} \cup ConfigFiles(r)

\* fs.unlink(path.join(tempDir, file))
RemoveFile(files, file) == files \ {file}

\* a cleanup that leaves the directory in place
RemoveDirectory_Skipped(dir) == dir

\* fs.rmdir(tempDir)
RemoveDirectory(dir) == "removed"

\* a cleanup whose catch block raises the error to the caller
AfterCleanupError_Raised == "capture_rejected"

\* catch (cleanupError) { console.warn(...) }: control goes on to the return
AfterCleanupError == "returned"

ScratchCharts == {extract(d) : d \in Documents} \ {<<>>}

ScratchInit ==
    /\ PluginConstructed
    /\ adf = <<>>
    /\ renderer \in ProcessRenderers \cup {ThemedCliRenderer}
    /\ pc = "capture"
    /\ charts \in ScratchCharts
    /\ chartIdx = 1
    /\ capturedCharts = <<>>
    /\ failedCharts = {}
    /\ tempDir = "none"
    /\ uploadIdx = 1
    /\ imageMap = EmptyRecord
    /\ afterAdf = <<>>
    /\ uploadCalls = <<>>
    /\ tempFiles = {}
    /\ cleanup = NoCleanup
    /\ svgContent = ""
    /\ rawSvg = ""
    /\ colour = NoColour

\* fs.mkdtemp resolves
Mkdtemp ==
    /\ pc = "capture"
    /\ tempDir' = "exists"
    /\ tempFiles' = {}
    /\ capturedCharts' = <<>>
    /\ chartIdx' = 1
    /\ pc' = "scratch_loop"
    /\ UNCHANGED <<renderer, charts, failedCharts, cleanup, callerVars>>

\* fs.mkdtemp rejects: no directory, the promise of captureMermaidCharts rejects
MkdtempRejects ==
    /\ pc = "capture"
    /\ pc' = "capture_rejected"
    /\ UNCHANGED <<renderer, charts, chartIdx, capturedCharts, failedCharts,
                   tempDir, tempFiles, cleanup, callerVars>>

\* one iteration whose try block runs to its end: the input file is written,
\* the tool writes the output file, the output is read and stored
RenderToFile ==
    /\ pc = "scratch_loop"
    /\ chartIdx <= Len(charts)
    /\ tempFiles' = tempFiles \cup {InputFile(renderer, charts[chartIdx].name),
                                    OutputFile(renderer, charts[chartIdx].name)}
                               \cup ConfigFiles(renderer)
    /\ capturedCharts' = StoreRendered(renderer, capturedCharts, charts[chartIdx])
    /\ chartIdx' = chartIdx + 1
    /\ UNCHANGED <<renderer, pc, charts, failedCharts, tempDir, cleanup, callerVars>>

\* one iteration in which a statement of the try block fails: the catch block
\* stores the placeholder
RenderToFileFails ==
    /\ pc = "scratch_loop"
    /\ chartIdx <= Len(charts)
    /\ \E stage \in FailStages(renderer) :
          tempFiles' = tempFiles \cup
                          FilesWritten(renderer, charts[chartIdx].name, stage)
    /\ capturedCharts' = StorePlaceholder(renderer, capturedCharts, charts[chartIdx])
    /\ failedCharts' = failedCharts \cup {chartIdx}
    /\ chartIdx' = chartIdx + 1
    /\ UNCHANGED <<renderer, pc, charts, tempDir, cleanup, callerVars>>

\* finally: fs.readdir(tempDir) resolves to the files of the directory
Readdir ==
    /\ pc = "scratch_loop"
    /\ chartIdx > Len(charts)
    /\ cleanup' = [stage |-> "unlink", files |-> tempFiles, built |-> capturedCharts]
    /\ pc' = "finally"
    /\ UNCHANGED <<renderer, charts, chartIdx, capturedCharts, failedCharts,
                   tempDir, tempFiles, callerVars>>

\* finally: fs.readdir(tempDir) rejects
ReaddirRejects ==
    /\ pc = "scratch_loop"
    /\ chartIdx > Len(charts)
    /\ cleanup' = [stage |-> "caught", files |-> {}, built |-> capturedCharts]
    /\ pc' = "finally"
    /\ UNCHANGED <<renderer, charts, chartIdx, capturedCharts, failedCharts,
                   tempDir, tempFiles, callerVars>>

\* finally: fs.unlink of the next file resolves (readdir fixes no order)
Unlink ==
    /\ pc = "finally"
    /\ cleanup.stage = "unlink"
    /\ \E file \in cleanup.files :
          /\ tempFiles' = RemoveFile(tempFiles, file)
          /\ cleanup' = [cleanup EXCEPT !.files = cleanup.files \ {file}]
    /\ UNCHANGED <<renderer, pc, charts, chartIdx, capturedCharts, failedCharts,
                   tempDir, callerVars>>

\* finally: fs.unlink of the next file rejects; the loop and rmdir are skipped
UnlinkRejects ==
    /\ pc = "finally"
    /\ cleanup.stage = "unlink"
    /\ cleanup.files # {}
    /\ cleanup' = [cleanup EXCEPT !.stage = "caught"]
    /\ UNCHANGED <<renderer, pc, charts, chartIdx, capturedCharts, failedCharts,
                   tempDir, tempFiles, callerVars>>

\* finally: every file is unlinked and fs.rmdir(tempDir) resolves
Rmdir ==
    /\ pc = "finally"
    /\ cleanup.stage = "unlink"
    /\ cleanup.files = {}
    /\ tempDir' = RemoveDirectory(tempDir)
    /\ cleanup' = [cleanup EXCEPT !.stage = "done"]
    /\ UNCHANGED <<renderer, pc, charts, chartIdx, capturedCharts, failedCharts,
                   tempFiles, callerVars>>

\* finally: fs.rmdir(tempDir) rejects
RmdirRejects ==
    /\ pc = "finally"
    /\ cleanup.stage = "unlink"
    /\ cleanup.files = {}
    /\ cleanup' = [cleanup EXCEPT !.stage = "caught"]
    /\ UNCHANGED <<renderer, pc, charts, chartIdx, capturedCharts, failedCharts,
                   tempDir, tempFiles, callerVars>>

\* the cleanup ran to its end: return capturedCharts
ScratchReturn ==
    /\ pc = "finally"
    /\ cleanup.stage = "done"
    /\ pc' = "returned"
    /\ UNCHANGED <<renderer, charts, chartIdx, capturedCharts, failedCharts,
                   tempDir, tempFiles, cleanup, callerVars>>

\* the inner catch logged the cleanup error: return capturedCharts
ScratchCaughtReturn ==
    /\ pc = "finally"
    /\ cleanup.stage = "caught"
    /\ pc' = AfterCleanupError
    /\ UNCHANGED <<renderer, charts, chartIdx, capturedCharts, failedCharts,
                   tempDir, tempFiles, cleanup, callerVars>>

ScratchNext ==
    \/ Mkdtemp
    \/ MkdtempRejects
    \/ RenderToFile
    \/ RenderToFileFails
    \/ Readdir
    \/ ReaddirRejects
    \/ Unlink
    \/ UnlinkRejects
    \/ Rmdir
    \/ RmdirRejects
    \/ ScratchReturn
    \/ ScratchCaughtReturn

ScratchSpec == ScratchInit /\ [][ScratchNext]_vars

\* captureMermaidCharts has left, by return or by rejection
ScratchExited == pc \in {"returned", "capture_rejected"}

----------------------------------------------------------------------------
(* C11 *)

\* C11 as stated: once the scratch directory has been created, every exit of
\* captureMermaidCharts happens only after all files in the directory and the
\* directory itself have been removed.
C11_ScratchRemovedOnExit ==
    ScratchExited /\ tempDir # "none" => tempDir = "removed" /\ tempFiles = {}

\* C11 amended: once the scratch directory has been created, every exit of
\* captureMermaidCharts happens only after the finally block has run; when
\* readdir, every unlink and rmdir resolved, all files and the directory are
\* removed; when one of them rejected, the directory is still there.
C11_ScratchCleanupAttempted ==
    ScratchExited /\ tempDir # "none" =>
        /\ cleanup.stage \in {"done", "caught"}
        /\ cleanup.stage = "done" => tempDir = "removed" /\ tempFiles = {}
        /\ cleanup.stage = "caught" => tempDir = "exists"

C11_Witness ==
    /\ pc = "returned"
    /\ cleanup.stage = "done"
    /\ tempDir = "removed"
    /\ Len(charts) = 3
    /\ Cardinality(failedCharts) = 1
    /\ Len(capturedCharts) = 3

----------------------------------------------------------------------------
(* C12 *)

\* C12: an error while listing the scratch directory, unlinking a file or
\* removing the directory is never raised to the caller, and the Map returned
\* is the Map as it was when the cleanup started.
C12_CleanupFailureSwallowed ==
    /\ pc = "capture_rejected" => cleanup.stage = "none"
    /\ cleanup.stage = "caught" /\ pc # "finally" => pc = "returned"
    /\ pc = "returned" => capturedCharts = cleanup.built

C12_Witness ==
    /\ pc = "returned"
    /\ cleanup.stage = "caught"
    /\ failedCharts = {}
    /\ Len(capturedCharts) = 2
    /\ Cardinality(tempFiles) = 1

----------------------------------------------------------------------------
(* C13 *)

\* the chart of the i-th node: extract keeps the order of the document
ChartOfNode(i) == Cardinality({k \in DiagramNodes : k <= i})

\* the name under which the renderer in use files the chart of a source text
StoredNameOf(text) ==
    IF renderer \in {"MermaidInternalPNGRenderer", "MermaidPNGRenderer"}
    THEN PngNameOf(text) ELSE SvgNameOf(text)

\* C13: whichever renderer the plugin was built with, a diagram node whose
\* chart was rendered without failure and whose upload returned an image is
\* rewritten by load: the key transform stored is the key load looks up.
C13_BackendInterchangeable ==
    pc = "done" =>
        \A i \in TextDiagramNodes :
            LET key == StoredNameOf(SourceText(i))
            IN  /\ ChartOfNode(i) \notin failedCharts
                /\ key \in DOMAIN imageMap
                /\ imageMap[key] # <<>>
                => afterAdf[i].type = "mediaSingle"

----------------------------------------------------------------------------
(* C14 *)

\* the charts the loop of captureMermaidCharts has taken so far
RenderedItems == SubSeq(charts, 1, chartIdx - 1)

\* how often the renderer was given a source text
RenderCount(text) ==
    Cardinality({j \in 1..Len(RenderedItems) : RenderedItems[j].data = text})

\* C14: when captureMermaidCharts has returned, every distinct source text
\* among the charts was rendered exactly once.
C14_RenderedExactlyOnce ==
    CaptureReturned =>
        \A j \in 1..Len(charts) : RenderCount(charts[j].data) = 1

----------------------------------------------------------------------------
(* C15 *)

\* C15: uploadBuffer is called only after captureMermaidCharts has returned,
\* entry by entry in the order of the returned Map and at most once per entry;
\* when transform returns its image map every entry has been uploaded exactly
\* once and the image map holds a result for every key.
C15_UploadOrdering ==
    /\ uploadCalls # <<>> => CaptureReturned
    /\ Len(uploadCalls) <= Len(capturedCharts)
    /\ \A k \in 1..Len(uploadCalls) : uploadCalls[k] = capturedCharts[k].key
    /\ pc \in {"transformed", "done"} /\ Len(charts) > 0 =>
          /\ Len(uploadCalls) = Len(capturedCharts)
          /\ \A name \in MapKeys(capturedCharts) :
                /\ Cardinality({k \in 1..Len(uploadCalls) : uploadCalls[k] = name}) = 1
                /\ name \in DOMAIN imageMap

C15_Witness ==
    /\ pc = "transformed"
    /\ Len(capturedCharts) = 3
    /\ Len(uploadCalls) = 3
    /\ \E a, b \in DOMAIN imageMap : imageMap[a] = <<>> /\ imageMap[b] # <<>>

----------------------------------------------------------------------------
(* Text: JavaScript strings, String.prototype.replace and the numbers      *)
(* read from and written into them                                         *)

\* largest number of pieces a tool output of the model is glued from
MaxPieces == 3

\* text.charAt(i - 1)
CharAt(text, i) == IF i >= 1 /\ i <= Len(text) THEN SubSeq(text, i, i) ELSE ""

\* characters c with text.indexOf(c) >= 0
InClass(c, class) == \E k \in 1..Len(class) : CharAt(class, k) = c

\* text.startsWith(pattern, i - 1)
MatchesAt(text, pattern, i) ==
    /\ i + Len(pattern) - 1 <= Len(text)
    /\ SubSeq(text, i, i + Len(pattern) - 1) = pattern

\* text.startsWith(pattern)
StartsWith(text, pattern) == MatchesAt(text, pattern, 1)

\* the least position from i on at which a condition holds, or 0
FirstFrom(text, i, Holds(_)) ==
    LET found == {j \in i..Len(text) : Holds(j)}
    IN  IF found = {} THEN 0 ELSE CHOOSE j \in found : \A k \in found : j <= k

\* text.indexOf(pattern, i - 1) + 1
IndexOf(text, pattern, i) == FirstFrom(text, i, LAMBDA j : MatchesAt(text, pattern, j))

\* text.includes(pattern)
Includes(text, pattern) == IndexOf(text, pattern, 1) > 0

\* text.slice(i - 1)
SliceFrom(text, i) == IF i > Len(text) THEN "" ELSE SubSeq(text, i, Len(text))

\* text.replace(new RegExp(escaped pattern, 'g'), replacement): every match,
\* left to right, a match never starting inside the one before it
RECURSIVE ReplaceAllFrom(_, _, _, _)
ReplaceAllFrom(text, pattern, replacement, i) ==
    LET j == IndexOf(text, pattern, i)
    IN  IF j = 0 THEN SliceFrom(text, i)
        ELSE SubSeq(text, i, j - 1) \o replacement
             \o ReplaceAllFrom(text, pattern, replacement, j + Len(pattern))

ReplaceAll(text, pattern, replacement) == ReplaceAllFrom(text, pattern, replacement, 1)

\* length of the longest run of characters of a class starting at i: X+ and X*
RunLength(text, i, class) ==
    LET stop == FirstFrom(text, i, LAMBDA j : ~InClass(CharAt(text, j), class))
    IN  IF i > Len(text) THEN 0
        ELSE IF stop = 0 THEN Len(text) - i + 1
        ELSE stop - i

DecDigits == "0123456789"
HexDigits == "0123456789abcdefABCDEF"
HexLower  == "0123456789abcdef"
HexUpper  == "0123456789ABCDEF"

\* value of one digit
DigitValue(c) ==
    IF InClass(c, HexLower)
    THEN (CHOOSE k \in 1..Len(HexLower) : CharAt(HexLower, k) = c) - 1
    ELSE (CHOOSE k \in 1..Len(HexUpper) : CharAt(HexUpper, k) = c) - 1

\* parseInt(digits, radix) of a string of digits of that radix
RECURSIVE ParseInt(_, _)
ParseInt(digits, radix) ==
    IF digits = "" THEN 0
    ELSE ParseInt(SubSeq(digits, 1, Len(digits) - 1), radix) * radix
         + DigitValue(CharAt(digits, Len(digits)))

\* the characters with the codes 32 to 95 and 97 to 126
AsciiLow  == " !\"#$%&'()*+,-./0123456789:;<=>?@ABCDEFGHIJKLMNOPQRSTUVWXYZ[\\]^_"
AsciiHigh == "abcdefghijklmnopqrstuvwxyz{|}~"

\* String.fromCharCode(code): the code unit code mod 2^16; a character
\* outside of the two strings above is written U+ and its code
FromCharCode(code) ==
    LET unit == code % 65536
    IN  IF unit >= 32 /\ unit <= 95 THEN CharAt(AsciiLow, unit - 31)
        ELSE IF unit >= 97 /\ unit <= 126 THEN CharAt(AsciiHigh, unit - 96)
        ELSE "U+" \o ToString(unit)

----------------------------------------------------------------------------
(* The entity decoding of MermaidCLIRenderer                                *)

\* htmlEntityMap, in the order of Object.entries
htmlEntityMap == <<
    [entity |-> "&gt;",    char |-> ">"],
    [entity |-> "&lt;",    char |-> "<"],
    [entity |-> "&amp;",   char |-> "&"],
    [entity |-> "&quot;",  char |-> "\""],
    [entity |-> "&apos;",  char |-> "'"],
    [entity |-> "&#39;",   char |-> "'"],
    [entity |-> "&#x27;",  char |-> "'"],
    [entity |-> "&#x2F;",  char |-> "/"],
    [entity |-> "&#x60;",  char |-> "U+96"],
    [entity |-> "&#x3D;",  char |-> "="],
    [entity |-> "&nbsp;",  char |-> " "],
    [entity |-> "&copy;",  char |-> "U+169"],
    [entity |-> "&reg;",   char |-> "U+174"],
    [entity |-> "&trade;", char |-> "U+8482"],
    [entity |-> "&euro;",  char |-> "U+8364"],
    [entity |-> "&pound;", char |-> "U+163"],
    [entity |-> "&yen;",   char |-> "U+165"],
    [entity |-> "&cent;",  char |-> "U+162"] >>

\* for (const [entity, char] of Object.entries(htmlEntityMap)): one global
\* replace per entry, each on the result of the one before
RECURSIVE ReplaceEntitiesFrom(_, _)
ReplaceEntitiesFrom(text, k) ==
    IF k > Len(htmlEntityMap) THEN text
    ELSE ReplaceEntitiesFrom(
             ReplaceAll(text, htmlEntityMap[k].entity, htmlEntityMap[k].char), k + 1)

ReplaceEntities(text) == ReplaceEntitiesFrom(text, 1)

\* length of the match of prefix, digits+, ; at i, or 0
NumericMatch(text, prefix, digits, i) ==
    LET run == RunLength(text, i + Len(prefix), digits)
    IN  IF /\ MatchesAt(text, prefix, i)
           /\ run > 0
           /\ CharAt(text, i + Len(prefix) + run) = ";"
        THEN Len(prefix) + run + 1
        ELSE 0

\* text.replace(/prefix(digits+);/g, (match, d) =>
\*     String.fromCharCode(parseInt(d, radix)))
RECURSIVE ReplaceNumericFrom(_, _, _, _, _)
ReplaceNumericFrom(text, prefix, digits, radix, i) ==
    LET j   == FirstFrom(text, i, LAMBDA p : NumericMatch(text, prefix, digits, p) > 0)
        len == NumericMatch(text, prefix, digits, j)
    IN  IF j = 0 THEN SliceFrom(text, i)
        ELSE SubSeq(text, i, j - 1)
             \o FromCharCode(ParseInt(SubSeq(text, j + Len(prefix), j + len - 2), radix))
             \o ReplaceNumericFrom(text, prefix, digits, radix, j + len)

\* .replace(/&#(\d+);/g, ...)
ReplaceDecimal(text) == ReplaceNumericFrom(text, "&#", DecDigits, 10, 1)

\* .replace(/&#x([0-9a-fA-F]+);/g, ...)
ReplaceHex(text) == ReplaceNumericFrom(text, "&#x", HexDigits, 16, 1)

\* a decoder that knows the hexadecimal references only
ReplaceNumeric_HexOnly(text) == ReplaceHex(text)

\* the numeric entities: decimal, then hexadecimal on its result
ReplaceNumeric(text) == ReplaceHex(ReplaceDecimal(text))

----------------------------------------------------------------------------
(* The colour conversion of MermaidCLIRenderer                              *)

\* the characters \s matches, of those a string of the model can hold
WhiteSpace == " \t\n\r"

\* the pieces the three regular expressions are made of
Lit(s)  == [kind |-> "lit", s |-> s]
Spaces  == [kind |-> "spaces"]   \* \s*
IntArg  == [kind |-> "int"]      \* (\d+)
NumArg  == [kind |-> "num"]      \* (\d+(?:\.\d+)?)
Alpha   == [kind |-> "alpha"]    \* [\d.]+

\* length of the match of one piece at i, or -1; no piece can give back
\* characters to the piece after it, so the longest match is the only one
PieceLength(text, piece, i) ==
    CASE piece.kind = "lit" ->
            IF MatchesAt(text, piece.s, i) THEN Len(piece.s) ELSE -1
      [] piece.kind = "spaces" -> RunLength(text, i, WhiteSpace)
      [] piece.kind = "int" ->
            IF RunLength(text, i, DecDigits) > 0
            THEN RunLength(text, i, DecDigits) ELSE -1
      [] piece.kind = "num" ->
            LET whole == RunLength(text, i, DecDigits)
                frac  == RunLength(text, i + whole + 1, DecDigits)
            IN  IF whole = 0 THEN -1
                ELSE IF CharAt(text, i + whole) = "." /\ frac > 0
                     THEN whole + 1 + frac
                     ELSE whole
      [] OTHER ->
            IF RunLength(text, i, DecDigits \o ".") > 0
            THEN RunLength(text, i, DecDigits \o ".") ELSE -1

\* the match of the pieces from the k-th on at i: whether there is one, where
\* it ends, and the captured groups
RECURSIVE MatchPieces(_, _, _, _, _)
MatchPieces(text, pieces, k, i, groups) ==
    IF k > Len(pieces) THEN [found |-> TRUE, end |-> i, groups |-> groups]
    ELSE LET len == PieceLength(text, pieces[k], i)
         IN  IF len < 0 THEN [found |-> FALSE, end |-> i, groups |-> groups]
             ELSE MatchPieces(text, pieces, k + 1, i + len,
                      IF pieces[k].kind \in {"int", "num"}
                      THEN Append(groups, SubSeq(text, i, i + len - 1))
                      ELSE groups)

hslPattern ==
    << Lit("hsl("), Spaces, NumArg, Spaces, Lit(","), Spaces, NumArg, Lit("%"),
       Spaces, Lit(","), Spaces, NumArg, Lit("%"), Spaces, Lit(")") >>

rgbPattern ==
    << Lit("rgb("), Spaces, IntArg, Spaces, Lit(","), Spaces, IntArg, Spaces,
       Lit(","), Spaces, IntArg, Spaces, Lit(")") >>

rgbaPattern ==
    << Lit("rgba("), Spaces, IntArg, Spaces, Lit(","), Spaces, IntArg, Spaces,
       Lit(","), Spaces, IntArg, Spaces, Lit(","), Spaces, Alpha, Spaces, Lit(")") >>

\* n.toString(16) of an integer
RECURSIVE ToString16(_)
ToString16(n) ==
    IF n < 0 THEN "-" \o ToString16(0 - n)
    ELSE IF n < 16 THEN CharAt(HexLower, n + 1)
    ELSE ToString16(n \div 16) \o CharAt(HexLower, (n % 16) + 1)

\* s.padStart(2, '0')
PadStart2(s) == IF Len(s) < 2 THEN "0" \o s ELSE s

\* a toHex without padStart
toHex_Unpadded(n) == ToString16(n)

\* toHex of rgbToHex
toHex(n) == PadStart2(ToString16(n))

\* rgbToHex(r, g, b)
rgbToHex(r, g, b) == "#" \o toHex(r) \o toHex(g) \o toHex(b)

\* number of digits after the point of a matched number
FractionDigits(num) ==
    IF Includes(num, ".") THEN Len(num) - RunLength(num, 1, DecDigits) - 1 ELSE 0

RECURSIVE PowerOfTen(_)
PowerOfTen(n) == IF n = 0 THEN 1 ELSE 10 * PowerOfTen(n - 1)

\* parseFloat(num) * denominator, for a denominator 10^d with d not less
\* than the number of digits after the point
Scaled(num, denominator) ==
    LET whole == RunLength(num, 1, DecDigits)
    IN  ParseInt(SubSeq(num, 1, whole), 10) * denominator
        + ParseInt(SubSeq(num, whole + 2, Len(num)), 10)
          * (denominator \div PowerOfTen(FractionDigits(num)))

Min(a, b) == IF a < b THEN a ELSE b
Max(a, b) == IF a > b THEN a ELSE b

\* f(n) of hslToHex for h = H/D, s = S/D, l = L/D, in exact arithmetic:
\*   k     = ((30 D n + H) mod 360 D) / 30 D
\*   m     = max(min(k - 3, 9 - k, 1), -1)
\*   color = L / 100 D  -  (S / D) * min(L, 100 D - L) / (100 D) / 100 * m
\* and Math.round(x) = floor(x + 1/2)
hslChannel(H, S, L, D, n) ==
    LET K     == (30 * D * n + H) % (360 * D)
        M     == Max(Min(Min(K - 90 * D, 270 * D - K), 30 * D), 0 - 30 * D)
        numer == L * 3000 * D * D - S * Min(L, 100 * D - L) * M
        denom == 300000 * D * D * D
    IN  toHex((510 * numer + denom) \div (2 * denom))

\* hslToHex(parseFloat(h), parseFloat(s), parseFloat(l))
hslToHex(h, s, l) ==
    LET D == PowerOfTen(Max(FractionDigits(h), Max(FractionDigits(s), FractionDigits(l))))
        H == Scaled(h, D)
        S == Scaled(s, D)
        L == Scaled(l, D)
    IN  "#" \o hslChannel(H, S, L, D, 0) \o hslChannel(H, S, L, D, 8)
            \o hslChannel(H, S, L, D, 4)

\* the callbacks of the three replace calls; none of them can throw, so the
\* catch blocks that would return the match are never entered
ColourOf(kind, groups) ==
    IF kind = "hsl" THEN hslToHex(groups[1], groups[2], groups[3])
    ELSE rgbToHex(ParseInt(groups[1], 10), ParseInt(groups[2], 10),
                  ParseInt(groups[3], 10))

\* str.replace(/pattern/g, callback)
RECURSIVE ReplaceColourFrom(_, _, _, _)
ReplaceColourFrom(str, kind, pieces, i) ==
    LET j == FirstFrom(str, i, LAMBDA p : MatchPieces(str, pieces, 1, p, <<>>).found)
        m == MatchPieces(str, pieces, 1, j, <<>>)
    IN  IF j = 0 THEN SliceFrom(str, i)
        ELSE SubSeq(str, i, j - 1) \o ColourOf(kind, m.groups)
             \o ReplaceColourFrom(str, kind, pieces, m.end)

convertHsl(str)  == ReplaceColourFrom(str, "hsl", hslPattern, 1)
convertRgb(str)  == ReplaceColourFrom(str, "rgb", rgbPattern, 1)
convertRgba(str) == ReplaceColourFrom(str, "rgba", rgbaPattern, 1)

\* convertColors(str)
convertColors(str) == convertRgba(convertRgb(convertHsl(str)))

----------------------------------------------------------------------------
(* The text of one chart, from the tool or the library to the Map           *)

XmlDeclaration == "<?xml version=\"1.0\" encoding=\"UTF-8\"?>"

\* the pieces the entity texts of the model are glued from
EntityPieces == {"&amp;", "lt;", "quot;", "#65;", "&#65;", "&#x41;", "&#38;", "A"}

RECURSIVE Concat(_)
Concat(pieces) == IF pieces = <<>> THEN "" ELSE Head(pieces) \o Concat(Tail(pieces))

\* texts without a root element: what the decoding does to them can be seen,
\* and an XML parser rejects every one of them
EntityTexts == {Concat(pieces) : pieces \in SeqsUpTo(EntityPieces, MaxPieces)}

\* the documents of the model: an optional XML declaration, an optional
\* processing instruction and an empty svg element with at most one of the
\* attributes the colour conversion looks at
SvgProlog == {"", XmlDeclaration \o "\n", "<?xml version=\"1.0\" standalone=\"no\"?>\n"}

SvgInstruction == {"", "<?xml-stylesheet href=\"a.css\"?>"}

SvgAttribute ==
    {<<>>,
     <<[name |-> "fill", value |-> "rgb(255,0,0)"]>>,
     <<[name |-> "stroke", value |-> "hsl(120,100%,50%)"]>>,
     <<[name |-> "style", value |-> "background: rgba(0,0,255,0.5)"]>>}

SvgDocuments ==
    [prolog : SvgProlog, instruction : SvgInstruction, attribute : SvgAttribute]

\* the element as the tool and as the serializer write it
ElementText(attribute) ==
    "<svg"
    \o (IF attribute = <<>> THEN ""
        ELSE " " \o attribute[1].name \o "=\"" \o attribute[1].value \o "\"")
    \o "/>"

\* the file the tool writes for a document
SvgSource(doc) ==
    doc.prolog
    \o (IF doc.instruction = "" THEN "" ELSE doc.instruction \o "\n")
    \o ElementText(doc.attribute)

SvgTexts == {SvgSource(doc) : doc \in SvgDocuments}

\* what the tool writes into the output file, or mermaid.render returns
ToolOutputs == EntityTexts \cup SvgTexts

\* new JSDOM(svgContent, {contentType: 'image/svg+xml'}) does not throw: of
\* the texts of the model the XML parser accepts the documents
JsdomParses(text) == text \in SvgTexts

\* the document of the parsed text: the XML declaration is no node of it, the
\* white space between the nodes of the prolog is none either
JsdomDocument(text) ==
    LET doc == CHOOSE d \in SvgDocuments : SvgSource(d) = text
    IN  [instruction |-> doc.instruction, attribute |-> doc.attribute]

\* querySelectorAll('[style]'), ('[fill]'), ('[stroke]') and setAttribute:
\* the value of such an attribute, when not empty, is converted
ConvertAttributes(document) ==
    IF /\ document.attribute # <<>>
       /\ document.attribute[1].name \in {"style", "fill", "stroke"}
       /\ document.attribute[1].value # ""
    THEN [document EXCEPT
              !.attribute = <<[name |-> document.attribute[1].name,
                               value |-> convertColors(document.attribute[1].value)]>>]
    ELSE document

\* dom.serialize(): the nodes of the document, one after the other
JsdomSerialize(document) == document.instruction \o ElementText(document.attribute)

\* an XML declaration check that compares with the whole declaration
EnsureXmlDeclaration_Exact(text) ==
    IF StartsWith(text, XmlDeclaration) THEN text
    ELSE XmlDeclaration \o "\n" \o text

\* if (!svgContent.startsWith('<?xml')) svgContent = declaration + svgContent
EnsureXmlDeclaration(text) ==
    IF ~StartsWith(text, "<?xml") THEN XmlDeclaration \o "\n" \o text
    ELSE text

UpperCase == "ABCDEFGHIJKLMNOPQRSTUVWXYZ"
LowerCase == "abcdefghijklmnopqrstuvwxyz"

\* c.toLowerCase() of one character
ToLowerCase(c) ==
    IF InClass(c, UpperCase)
    THEN CharAt(LowerCase, CHOOSE k \in 1..Len(UpperCase) : CharAt(UpperCase, k) = c)
    ELSE c

\* a match under the i flag: letters compare as their lower case
MatchesAtIgnoreCase(text, pattern, i) ==
    /\ i + Len(pattern) - 1 <= Len(text)
    /\ \A k \in 1..Len(pattern) :
          ToLowerCase(CharAt(text, i + k - 1)) = ToLowerCase(CharAt(pattern, k))

\* length of the match of /style="[^"]*background[^"]*"/i at i, or 0: the
\* word has to stand before the first " that follows style="
BackgroundStyleMatch(text, i) ==
    LET close == IndexOf(text, "\"", i + 7)
    IN  IF /\ MatchesAtIgnoreCase(text, "style=\"", i)
           /\ close > 0
           /\ \E k \in (i + 7)..(close - 1) :
                 /\ k + 10 <= close
                 /\ MatchesAtIgnoreCase(text, "background", k)
        THEN close - i + 1
        ELSE 0

\* cleanedSvg.replace(/style="[^"]*background[^"]*"/gi, 'style=""')
RECURSIVE RemoveBackgroundFrom(_, _)
RemoveBackgroundFrom(text, i) ==
    LET j == FirstFrom(text, i, LAMBDA p : BackgroundStyleMatch(text, p) > 0)
    IN  IF j = 0 THEN SliceFrom(text, i)
        ELSE SubSeq(text, i, j - 1) \o "style=\"\""
             \o RemoveBackgroundFrom(text, j + BackgroundStyleMatch(text, j))

\* text.replace(/pattern/, replacement): the first match only
ReplaceFirst(text, pattern, replacement) ==
    LET j == IndexOf(text, pattern, 1)
    IN  IF j = 0 THEN text
        ELSE SubSeq(text, 1, j - 1) \o replacement \o SliceFrom(text, j + Len(pattern))

\* SVGMermaidRenderer: the two replace calls on cleanedSvg
CleanSvg(svg) ==
    ReplaceFirst(RemoveBackgroundFrom(svg, 1), "<svg",
                 "<svg style=\"background: transparent\"")

\* `${chart.name}` of a file name
NameText(name) == name.stem \o name.ext

\* errorSvg of the catch blocks
errorSvg(chart) ==
    XmlDeclaration \o "\n"
    \o "<svg xmlns=\"http://www.w3.org/2000/svg\" width=\"400\" height=\"100\">\n"
    \o "\t<rect width=\"400\" height=\"100\" fill=\"#ffeeee\" stroke=\"#ff0000\"/>\n"
    \o "\t<text x=\"200\" y=\"50\" text-anchor=\"middle\" fill=\"#ff0000\">\n"
    \o "\t\tError rendering chart: " \o NameText(chart.name) \o "\n"
    \o "\t</text>\n"
    \o "</svg>"

\* the renderers whose Map holds SVG text: MermaidCLIRenderer as in
\* src/MermaidCLIRenderer.ts, MermaidCLIRenderer as in unnamed/part_000 (no
\* DOM step), and SVGMermaidRenderer
CliRenderer     == "MermaidCLIRenderer"
CliRendererText == "MermaidCLIRenderer (part_000)"
LibraryRenderer == "SVGMermaidRenderer"

TextRenderers == {CliRenderer, CliRendererText, LibraryRenderer}

\* the one chart whose text is followed
TextChart == extract(<<CodeBlock("mermaid", <<TextChild("graph TD;A-->B")>>)>>)

\* the variables the text steps leave alone
otherTextVars ==
    <<adf, charts, chartIdx, failedCharts, tempDir, uploadIdx, imageMap, afterAdf,
      uploadCalls, tempFiles, cleanup, colour, pluginVars>>

TextInit ==
    /\ PluginConstructed
    /\ adf = <<>>
    /\ renderer \in TextRenderers
    /\ pc = "render"
    /\ charts = TextChart
    /\ chartIdx = 1
    /\ capturedCharts = <<>>
    /\ failedCharts = {}
    /\ tempDir = "none"
    /\ uploadIdx = 1
    /\ imageMap = EmptyRecord
    /\ afterAdf = <<>>
    /\ uploadCalls = <<>>
    /\ tempFiles = {}
    /\ cleanup = NoCleanup
    /\ svgContent = ""
    /\ rawSvg = ""
    /\ colour = NoColour

\* fs.readFile(outputFile, 'utf-8') resolves to what the tool wrote, or
\* mermaid.render resolves to its svg
ReadOutput ==
    /\ pc = "render"
    /\ \E output \in ToolOutputs : rawSvg' = output /\ svgContent' = output
    /\ pc' = "read"
    /\ UNCHANGED <<renderer, capturedCharts, otherTextVars>>

\* writeFile, the tool, readFile or mermaid.render fails
RenderThrows ==
    /\ pc = "render"
    /\ pc' = "caught"
    /\ UNCHANGED <<renderer, capturedCharts, svgContent, rawSvg, otherTextVars>>

\* the loop over htmlEntityMap
DecodeNamed ==
    /\ pc = "read"
    /\ renderer \in {CliRenderer, CliRendererText}
    /\ svgContent' = ReplaceEntities(svgContent)
    /\ pc' = "named"
    /\ UNCHANGED <<renderer, capturedCharts, rawSvg, otherTextVars>>

\* the two replace calls for the numeric entities
DecodeNumeric ==
    /\ pc = "named"
    /\ svgContent' = ReplaceNumeric(svgContent)
    /\ pc' = "decoded"
    /\ UNCHANGED <<renderer, capturedCharts, rawSvg, otherTextVars>>

\* new JSDOM(...), the conversion of the colours, dom.serialize()
ConvertWithJsdom ==
    /\ pc = "decoded"
    /\ renderer = CliRenderer
    /\ JsdomParses(svgContent)
    /\ svgContent' = JsdomSerialize(ConvertAttributes(JsdomDocument(svgContent)))
    /\ pc' = "serialized"
    /\ UNCHANGED <<renderer, capturedCharts, rawSvg, otherTextVars>>

\* new JSDOM(...) throws on text that is no XML document
JsdomThrows ==
    /\ pc = "decoded"
    /\ renderer = CliRenderer
    /\ ~JsdomParses(svgContent)
    /\ pc' = "caught"
    /\ UNCHANGED <<renderer, capturedCharts, svgContent, rawSvg, otherTextVars>>

\* the XML declaration is prepended unless the text starts with <?xml
DeclareXml ==
    /\ \/ pc = "serialized" /\ renderer = CliRenderer
       \/ pc = "decoded" /\ renderer = CliRendererText
    /\ svgContent' = EnsureXmlDeclaration(svgContent)
    /\ pc' = "declared"
    /\ UNCHANGED <<renderer, capturedCharts, rawSvg, otherTextVars>>

\* SVGMermaidRenderer: the svg is cleaned and the XML declaration prepended
CleanAndDeclareXml ==
    /\ pc = "read"
    /\ renderer = LibraryRenderer
    /\ svgContent' = XmlDeclaration \o "\n" \o CleanSvg(svgContent)
    /\ pc' = "declared"
    /\ UNCHANGED <<renderer, capturedCharts, rawSvg, otherTextVars>>

\* capturedCharts.set(chart.name, Buffer.from(svgContent, 'utf-8'))
StoreSvg ==
    /\ pc = "declared"
    /\ capturedCharts' = MapSet(capturedCharts, charts[1].name, svgContent)
    /\ pc' = "stored"
    /\ UNCHANGED <<renderer, svgContent, rawSvg, otherTextVars>>

\* catch: capturedCharts.set(chart.name, Buffer.from(errorSvg, 'utf-8'))
StoreErrorSvg ==
    /\ pc = "caught"
    /\ capturedCharts' = MapSet(capturedCharts, charts[1].name, errorSvg(charts[1]))
    /\ pc' = "stored"
    /\ UNCHANGED <<renderer, svgContent, rawSvg, otherTextVars>>

TextNext ==
    \/ ReadOutput
    \/ RenderThrows
    \/ DecodeNamed
    \/ DecodeNumeric
    \/ ConvertWithJsdom
    \/ JsdomThrows
    \/ DeclareXml
    \/ CleanAndDeclareXml
    \/ StoreSvg
    \/ StoreErrorSvg

TextSpec == TextInit /\ [][TextNext]_vars

----------------------------------------------------------------------------
(* C16 *)

\* the entity decoding of the external-process renderer has run
Decoded == pc = "decoded"

\* the three references of the claim and a plain letter, with what each is
\* to become
DecodeExamples ==
    << [from |-> "&amp;lt;", to |-> "&lt;"],
       [from |-> "&#65;",    to |-> "A"],
       [from |-> "&#x41;",   to |-> "A"],
       [from |-> "A",        to |-> "A"] >>

ExampleAt(text, i) ==
    {k \in 1..Len(DecodeExamples) : MatchesAt(text, DecodeExamples[k].from, i)}

\* the text is a row of the examples
RECURSIVE MadeOfExamples(_, _)
MadeOfExamples(text, i) ==
    IF i > Len(text) THEN TRUE
    ELSE /\ ExampleAt(text, i) # {}
         /\ LET k == CHOOSE k \in ExampleAt(text, i) : TRUE
            IN  MadeOfExamples(text, i + Len(DecodeExamples[k].from))

\* each example of the row replaced by what it is to become
RECURSIVE ExamplesDecoded(_, _)
ExamplesDecoded(text, i) ==
    IF i > Len(text) THEN ""
    ELSE LET k == CHOOSE k \in ExampleAt(text, i) : TRUE
         IN  DecodeExamples[k].to
             \o ExamplesDecoded(text, i + Len(DecodeExamples[k].from))

\* C16: the decoder turns &amp;lt; into &lt; and decodes it no further, turns
\* &#65; into A and &#x41; into A, alone and in a row of such references.
C16_EntityExamples ==
    Decoded /\ MadeOfExamples(rawSvg, 1) => svgContent = ExamplesDecoded(rawSvg, 1)

C16_Witness ==
    /\ Decoded
    /\ rawSvg = "&amp;lt;&#65;"
    /\ svgContent = "&lt;A"

----------------------------------------------------------------------------
(* C17 *)

\* the entity that starts at i, if any: its length and its character
EntityAt(text, i) ==
    LET named   == {k \in 1..Len(htmlEntityMap) : MatchesAt(text, htmlEntityMap[k].entity, i)}
        decimal == NumericMatch(text, "&#", DecDigits, i)
        hex     == NumericMatch(text, "&#x", HexDigits, i)
    IN  IF named # {}
        THEN LET k == CHOOSE k \in named : TRUE
             IN  [len |-> Len(htmlEntityMap[k].entity), char |-> htmlEntityMap[k].char]
        ELSE IF decimal > 0
        THEN [len |-> decimal,
              char |-> FromCharCode(ParseInt(SubSeq(text, i + 2, i + decimal - 2), 10))]
        ELSE IF hex > 0
        THEN [len |-> hex,
              char |-> FromCharCode(ParseInt(SubSeq(text, i + 3, i + hex - 2), 16))]
        ELSE [len |-> 0, char |-> ""]

\* the text with every entity of it decoded once: the characters a decoding
\* puts out are not looked at again
RECURSIVE DecodedOnce(_, _)
DecodedOnce(text, i) ==
    LET j == FirstFrom(text, i, LAMBDA p : EntityAt(text, p).len > 0)
    IN  IF j = 0 THEN SliceFrom(text, i)
        ELSE SubSeq(text, i, j - 1) \o EntityAt(text, j).char
             \o DecodedOnce(text, j + EntityAt(text, j).len)

\* C17: the text the entity decoding hands to the colour conversion and the
\* XML declaration step is singly decoded: no character put out by decoding
\* one entity is consumed as part of another entity, so the text is the input
\* with each of its entities decoded once.
C17_SinglyDecoded == Decoded => svgContent = DecodedOnce(rawSvg, 1)

----------------------------------------------------------------------------
(* C18 *)

\* C18: every value of the Map an SVG renderer returns, render or error
\* placeholder, begins with <?xml version="1.0" encoding="UTF-8"?>, whatever
\* the tool or the library produced.
C18_XmlDeclaration ==
    pc = "stored" =>
        \A k \in 1..Len(capturedCharts) :
            StartsWith(capturedCharts[k].val, XmlDeclaration)

----------------------------------------------------------------------------
(* convertColors on the strings of one colour function                      *)

\* channel values within and beyond 0..255, and one triple for every value
\* of 0..255
ChannelValues == {0, 9, 16, 255, 256, 300}

ChannelTriples ==
    {<<r, g, b>> : r \in ChannelValues, g \in ChannelValues, b \in ChannelValues}
    \cup {<<n, 255 - n, (17 * n) % 256>> : n \in 0..255}

\* hue, saturation and lightness within and beyond their ranges
HslTriples ==
    {<<h, s, l>> : h \in {0, 120, 360, 400}, s \in {0, 100, 150}, l \in {0, 50, 100, 120}}

AlphaTexts == {"0", "1", "0.5", ".25"}

\* the text around the colour function
Surroundings == {[before |-> "", after |-> ""], [before |-> "fill:", after |-> ";"]}

ColourFunctions ==
    {[fn |-> "rgb", args |-> t, alpha |-> "", space |-> sp,
      before |-> around.before, after |-> around.after] :
        t \in ChannelTriples, sp \in {"", " "}, around \in Surroundings}
    \cup
    {[fn |-> "rgba", args |-> t, alpha |-> a, space |-> sp,
      before |-> around.before, after |-> around.after] :
        t \in ChannelTriples, a \in AlphaTexts, sp \in {"", " "}, around \in Surroundings}
    \cup
    {[fn |-> "hsl", args |-> t, alpha |-> "", space |-> sp,
      before |-> around.before, after |-> around.after] :
        t \in HslTriples, sp \in {"", " "}, around \in Surroundings}

\* the colour keywords a style sheet or an attribute of the tool's output can
\* hold in the place of a colour function, with the property they stand for
ColourKeywords ==
    {[fn |-> kw, args |-> <<>>, alpha |-> "", space |-> sp,
      before |-> property \o ":", after |-> after] :
        kw \in {"currentColor", "revert"}, sp \in {"", " "},
        property \in {"stroke", "fill", "stroke-width"}, after \in {"", ";"}}

\* the string a style sheet or an attribute holds for a colour function
ColourText(c) ==
    LET percent == IF c.fn = "hsl" THEN "%" ELSE ""
    IN  IF c.args = <<>> THEN c.before \o c.space \o c.fn \o c.after
        ELSE
        c.before \o c.fn \o "(" \o ToString(c.args[1])
        \o "," \o c.space \o ToString(c.args[2]) \o percent
        \o "," \o c.space \o ToString(c.args[3]) \o percent
        \o (IF c.alpha = "" THEN "" ELSE "," \o c.space \o c.alpha)
        \o ")" \o c.after

\* the variables convertColors leaves alone
otherColourVars ==
    <<adf, renderer, charts, chartIdx, capturedCharts, failedCharts, tempDir,
      uploadIdx, imageMap, afterAdf, uploadCalls, tempFiles, cleanup, pluginVars>>

ColourInit ==
    /\ PluginConstructed
    /\ adf = <<>>
    /\ renderer = CliRenderer
    /\ pc = "convertColors"
    /\ charts = <<>>
    /\ chartIdx = 1
    /\ capturedCharts = <<>>
    /\ failedCharts = {}
    /\ tempDir = "none"
    /\ uploadIdx = 1
    /\ imageMap = EmptyRecord
    /\ afterAdf = <<>>
    /\ uploadCalls = <<>>
    /\ tempFiles = {}
    /\ cleanup = NoCleanup
    /\ colour \in ColourFunctions \cup ColourKeywords
    /\ rawSvg = ColourText(colour)
    /\ svgContent = ColourText(colour)

\* convertColors: the replace call for hsl()
ConvertHsl ==
    /\ pc = "convertColors"
    /\ svgContent' = convertHsl(svgContent)
    /\ pc' = "hsl_done"
    /\ UNCHANGED <<rawSvg, colour, otherColourVars>>

\* convertColors: the replace call for rgb()
ConvertRgb ==
    /\ pc = "hsl_done"
    /\ svgContent' = convertRgb(svgContent)
    /\ pc' = "rgb_done"
    /\ UNCHANGED <<rawSvg, colour, otherColourVars>>

\* convertColors: the replace call for rgba(), and return str
ConvertRgba ==
    /\ pc = "rgb_done"
    /\ svgContent' = convertRgba(svgContent)
    /\ pc' = "converted"
    /\ UNCHANGED <<rawSvg, colour, otherColourVars>>

ColourNext ==
    \/ ConvertHsl
    \/ ConvertRgb
    \/ ConvertRgba

ColourSpec == ColourInit /\ [][ColourNext]_vars

----------------------------------------------------------------------------
(* C19 *)

\* two lower-case hexadecimal digits of a value of 0..255
TwoHexDigits(n) == CharAt(HexLower, (n \div 16) + 1) \o CharAt(HexLower, (n % 16) + 1)

\* C19: convertColors rewrites rgb(r,g,b) with integer channels in 0..255 to
\* #rrggbb, two zero-padded lower-case hexadecimal digits per channel, and
\* rgba(r,g,b,a) to the same #rrggbb for every alpha, leaving the text
\* around it as it is.
C19_RgbToHex ==
    /\ pc = "converted"
    /\ colour.fn \in {"rgb", "rgba"}
    /\ \A k \in 1..3 : colour.args[k] \in 0..255
    => svgContent = colour.before \o "#" \o TwoHexDigits(colour.args[1])
                    \o TwoHexDigits(colour.args[2]) \o TwoHexDigits(colour.args[3])
                    \o colour.after

C19_Witness ==
    /\ pc = "converted"
    /\ rawSvg = "rgba(0,0,255,0.5)"
    /\ svgContent = "#0000ff"

----------------------------------------------------------------------------
(* C20 *)

\* an argument of the colour function is outside of its range
OutOfRange(c) ==
    IF c.fn = "hsl"
    THEN c.args[1] \notin 0..360 \/ c.args[2] \notin 0..100 \/ c.args[3] \notin 0..100
    ELSE c.fn \in {"rgb", "rgba"} /\ \E k \in 1..3 : c.args[k] \notin 0..255

\* # followed by exactly six hexadecimal digits
IsHexColour(text) ==
    /\ Len(text) = 7
    /\ CharAt(text, 1) = "#"
    /\ \A k \in 2..7 : InClass(CharAt(text, k), HexDigits)

\* C20: a colour function with an argument out of range is left in the output
\* as the unmodified input text, and what convertColors puts in the place of
\* a colour function is always # followed by exactly six hexadecimal digits.
C20_RangeValidation ==
    pc = "converted" =>
        /\ OutOfRange(colour) => svgContent = rawSvg
        /\ \/ svgContent = rawSvg
           \/ /\ StartsWith(svgContent, colour.before)
              /\ Len(svgContent) = Len(colour.before) + 7 + Len(colour.after)
              /\ IsHexColour(SubSeq(svgContent, Len(colour.before) + 1,
                                    Len(colour.before) + 7))
              /\ SliceFrom(svgContent, Len(colour.before) + 8) = colour.after

----------------------------------------------------------------------------
(* C21 *)

\* what the keyword is to be replaced with in the place it stands in
KeywordFallback(c) ==
    IF c.fn = "revert" /\ c.before = "stroke-width:" THEN "1px" ELSE "#000000"

\* the keyword stands in a place the fallbacks are stated for
FallbackStated(c) ==
    \/ c.fn = "currentColor"
    \/ c.fn = "revert" /\ c.before \in {"stroke:", "fill:", "stroke-width:"}

\* C21: convertColors replaces currentColor with #000000, and revert with
\* #000000 on stroke and on fill and with 1px on stroke-width, so that the
\* converted text holds neither keyword in those places.
C21_KeywordFallbacks ==
    pc = "converted" /\ colour \in ColourKeywords /\ FallbackStated(colour) =>
        /\ svgContent = colour.before \o colour.space \o KeywordFallback(colour)
                        \o colour.after
        /\ ~Includes(svgContent, "currentColor")
        /\ ~Includes(svgContent, "revert")

----------------------------------------------------------------------------
(* C22 *)

\* the name with its .svg extension replaced by .png
PngKeyOf(name) == [stem |-> name.stem, ext |-> ".png"]

\* C22: in the Map a PNG renderer returns, every key is the name of an input
\* chart with .svg replaced by .png, whether the entry holds a rendered PNG or
\* the 1x1 placeholder, and every input chart has exactly one such entry.
C22_RasterRenaming ==
    CaptureReturned /\ renderer \in PngRenderers =>
        /\ \A k \in 1..Len(capturedCharts) :
            /\ capturedCharts[k].val.kind \in {"png", "errorPng"}
            /\ \E i \in 1..Len(charts) :
                /\ charts[i].name.ext = ".svg"
                /\ capturedCharts[k].key = PngKeyOf(charts[i].name)
        /\ \A i \in 1..Len(charts) :
            Cardinality({k \in 1..Len(capturedCharts) :
                            capturedCharts[k].key = PngKeyOf(charts[i].name)}) = 1

C22_Witness ==
    /\ CaptureReturned
    /\ renderer = "MermaidPNGRenderer"
    /\ Len(charts) = 2
    /\ Len(capturedCharts) = 2
    /\ \E k \in 1..2 : capturedCharts[k].val.kind = "png"
    /\ \E k \in 1..2 : capturedCharts[k].val.kind = "errorPng"

----------------------------------------------------------------------------
(* ConfluencePlugin: the ribbon icon and the commands registered by onload  *)

\* Most doPublish calls of one run that are explored.
MaxPublishes == 2

\* the notes of the vault, by path
NotePaths == {"docs/a.md", "inbox/b.md"}

\* settings.folderToPublish: not configured, or a folder of the vault
FolderSettings == {"", "docs"}

ConniePublish == "connie-publish"

\* the frontmatter of a note: a function from the keys present to their
\* values; no frontmatter and an empty frontmatter are the empty function
FrontMatters ==
    {[k \in {} |-> TRUE]} \cup {[k \in {ConniePublish} |-> v] : v \in BOOLEAN}

\* activeLeafPath: the path of the active markdown view's file, <<>> when
\* there is none
activeLeafPath(file) == file

\* a doPublish call as it starts: its caller, its publishFilter, the
\* settings.folderToPublish it runs with, the promise still pending
doPublish(caller, publishFilter, folder) ==
    [caller |-> caller, publishFilter |-> publishFilter, folderToPublish |-> folder,
     state |-> "pending", modal |-> "none"]

\* the doPublish calls whose promise has not settled or whose handlers
\* (then / catch / finally) have not all run
InFlight == {k \in 1..Len(publishes) : publishes[k].state # "finished"}

\* a promise has settled and its handlers are running: no event of the user
\* interface is handled before they have run
Draining ==
    \E k \in 1..Len(publishes) : publishes[k].state \in {"resolved", "rejected", "handled"}

NoticeSyncing == "Syncing already on going"
NoticeFolder == "Please configure 'Folder to Publish' in plugin settings"
NoticeNoFile == "No active markdown file to publish"

\* the variables the handlers of ConfluencePlugin leave alone
rendererVars ==
    <<adf, renderer, pc, charts, chartIdx, capturedCharts, failedCharts, tempDir,
      uploadIdx, imageMap, afterAdf, uploadCalls, tempFiles, cleanup, svgContent,
      rawSvg, colour>>

PluginInit ==
    /\ adf = <<>>
    /\ renderer = "MermaidCLIRenderer"
    /\ pc = "onload_done"
    /\ charts = <<>>
    /\ chartIdx = 1
    /\ capturedCharts = <<>>
    /\ failedCharts = {}
    /\ tempDir = "none"
    /\ uploadIdx = 1
    /\ imageMap = [k \in {} |-> <<>>]
    /\ afterAdf = <<>>
    /\ uploadCalls = <<>>
    /\ tempFiles = {}
    /\ cleanup = NoCleanup
    /\ svgContent = ""
    /\ rawSvg = ""
    /\ colour = NoColour
    /\ isSyncing = FALSE
    /\ folderToPublish \in FolderSettings
    /\ activeFile \in {<<>>} \cup {<<p>> : p \in NotePaths}
    /\ frontmatter \in [NotePaths -> FrontMatters]
    /\ publishes = <<>>
    /\ notice = ""
    /\ command = <<>>

\* the user opens another note, or closes the active one
OpenFile ==
    /\ ~Draining
    /\ \E f \in {<<>>} \cup {<<p>> : p \in NotePaths} :
        /\ f # activeFile
        /\ activeFile' = f
    /\ UNCHANGED <<isSyncing, folderToPublish, frontmatter, publishes, notice, command,
                   rendererVars>>

\* the user changes 'Folder to Publish' in the settings tab
SaveSettings ==
    /\ ~Draining
    /\ \E f \in FolderSettings :
        /\ f # folderToPublish
        /\ folderToPublish' = f
    /\ UNCHANGED <<isSyncing, activeFile, frontmatter, publishes, notice, command,
                   rendererVars>>

\* lines 654-693: the handler of the ribbon icon, up to its await
RibbonClick ==
    /\ ~Draining
    /\ command' = <<"ribbon">>
    /\ IF isSyncing
       THEN /\ notice' = NoticeSyncing
            /\ UNCHANGED <<isSyncing, publishes>>
       ELSE IF folderToPublish = ""
       THEN /\ notice' = NoticeFolder
            /\ UNCHANGED <<isSyncing, publishes>>
       ELSE /\ Len(publishes) < MaxPublishes
            /\ isSyncing' = TRUE
            /\ publishes' = Append(publishes, doPublish("ribbon", <<>>, folderToPublish))
            /\ notice' = ""
    /\ UNCHANGED <<folderToPublish, activeFile, frontmatter, rendererVars>>

\* lines 727-772: checkCallback(false) of publish-current
PublishCurrent ==
    /\ ~Draining
    /\ command' = <<"publish-current">>
    /\ IF ~isSyncing
       THEN LET currentPath == activeLeafPath(activeFile)
            IN IF currentPath = <<>>
               THEN /\ notice' = NoticeNoFile
                    /\ UNCHANGED <<isSyncing, publishes>>
               ELSE /\ Len(publishes) < MaxPublishes
                    /\ isSyncing' = TRUE
                    /\ publishes' = Append(publishes,
                            doPublish("publish-current", currentPath, folderToPublish))
                    /\ notice' = ""
       ELSE /\ notice' = ""
            /\ UNCHANGED <<isSyncing, publishes>>
    /\ UNCHANGED <<folderToPublish, activeFile, frontmatter, rendererVars>>

\* Mutant of PublishAll: isSyncing is not tested before the publish starts.
PublishAll_Unguarded ==
    /\ ~Draining
    /\ command' = <<"publish-all">>
    /\ IF folderToPublish = ""
       THEN /\ notice' = NoticeFolder
            /\ UNCHANGED <<isSyncing, publishes>>
       ELSE /\ Len(publishes) < MaxPublishes
            /\ isSyncing' = TRUE
            /\ publishes' = Append(publishes, doPublish("publish-all", <<>>, folderToPublish))
            /\ notice' = ""
    /\ UNCHANGED <<folderToPublish, activeFile, frontmatter, rendererVars>>

\* lines 774-818: checkCallback(false) of publish-all
PublishAll ==
    /\ ~Draining
    /\ command' = <<"publish-all">>
    /\ IF ~isSyncing
       THEN IF folderToPublish = ""
            THEN /\ notice' = NoticeFolder
                 /\ UNCHANGED <<isSyncing, publishes>>
            ELSE /\ Len(publishes) < MaxPublishes
                 /\ isSyncing' = TRUE
                 /\ publishes' = Append(publishes,
                                        doPublish("publish-all", <<>>, folderToPublish))
                 /\ notice' = ""
       ELSE /\ notice' = ""
            /\ UNCHANGED <<isSyncing, publishes>>
    /\ UNCHANGED <<folderToPublish, activeFile, frontmatter, rendererVars>>

\* publisher.publish resolves and doPublish returns its UploadResults
DoPublishResolves ==
    /\ \E k \in 1..Len(publishes) :
        /\ publishes[k].state = "pending"
        /\ publishes' = [publishes EXCEPT ![k].state = "resolved"]
    /\ UNCHANGED <<isSyncing, folderToPublish, activeFile, frontmatter, notice, command,
                   rendererVars>>

\* publisher.publish rejects, and doPublish with it
DoPublishRejects ==
    /\ \E k \in 1..Len(publishes) :
        /\ publishes[k].state = "pending"
        /\ publishes' = [publishes EXCEPT ![k].state = "rejected"]
    /\ UNCHANGED <<isSyncing, folderToPublish, activeFile, frontmatter, notice, command,
                   rendererVars>>

\* the rest of the try block / the then handler: CompletedModal with the stats
OpenCompletedModal ==
    /\ \E k \in 1..Len(publishes) :
        /\ publishes[k].state = "resolved"
        /\ publishes' = [publishes EXCEPT ![k].state = "handled", ![k].modal = "stats"]
    /\ UNCHANGED <<isSyncing, folderToPublish, activeFile, frontmatter, notice, command,
                   rendererVars>>

\* the catch block / the catch handler: CompletedModal with the error message
OpenErrorModal ==
    /\ \E k \in 1..Len(publishes) :
        /\ publishes[k].state = "rejected"
        /\ publishes' = [publishes EXCEPT ![k].state = "handled", ![k].modal = "error"]
    /\ UNCHANGED <<isSyncing, folderToPublish, activeFile, frontmatter, notice, command,
                   rendererVars>>

\* Mutant of Finally: isSyncing is reset after the stats modal only, as if the
\* assignment stood at the end of the try block or of the then handler.
Finally_OnSuccessOnly ==
    /\ \E k \in 1..Len(publishes) :
        /\ publishes[k].state = "handled"
        /\ publishes' = [publishes EXCEPT ![k].state = "finished"]
        /\ isSyncing' = IF publishes[k].modal = "stats" THEN FALSE ELSE isSyncing
    /\ UNCHANGED <<folderToPublish, activeFile, frontmatter, notice, command, rendererVars>>

\* the finally block / the finally handler: this.isSyncing = false
Finally ==
    /\ \E k \in 1..Len(publishes) :
        /\ publishes[k].state = "handled"
        /\ publishes' = [publishes EXCEPT ![k].state = "finished"]
        /\ isSyncing' = FALSE
    /\ UNCHANGED <<folderToPublish, activeFile, frontmatter, notice, command, rendererVars>>

\* String.prototype.startsWith on the path of a file
PathStartsWith(path, prefix) == StartsWith(path, prefix)

\* lines 829-837 and 869-877: enabledForPublishing of the two commands
enabledForPublishing(path, frontMatter) ==
    IF ConniePublish \in DOMAIN frontMatter
    THEN IF PathStartsWith(path, folderToPublish) /\ frontMatter[ConniePublish] # FALSE
         THEN TRUE
         ELSE frontMatter[ConniePublish] = TRUE
    ELSE PathStartsWith(path, folderToPublish)

\* delete frontmatter[key]
DeleteKey(fm, key) == [k \in DOMAIN fm \ {key} |-> fm[k]]

\* frontmatter[key] = value
SetKey(fm, key, value) == [k \in DOMAIN fm \cup {key} |-> IF k = key THEN value ELSE fm[k]]

\* lines 841-855: the function enable-publishing hands to processFrontMatter
EnableFrontMatter(path, fm) ==
    IF PathStartsWith(path, folderToPublish)
    THEN DeleteKey(fm, ConniePublish)
    ELSE SetKey(fm, ConniePublish, TRUE)

\* lines 881-895: the function disable-publishing hands to processFrontMatter
DisableFrontMatter(path, fm) ==
    IF PathStartsWith(path, folderToPublish)
    THEN SetKey(fm, ConniePublish, FALSE)
    ELSE DeleteKey(fm, ConniePublish)

\* lines 820-858: enable-publishing, offered when editorCheckCallback(true)
\* returns true and then run with checking = false
EnablePublishing ==
    /\ ~Draining
    /\ activeFile # <<>>
    /\ LET path == activeFile[1]
       IN /\ ~enabledForPublishing(path, frontmatter[path])
          /\ frontmatter' =
                [frontmatter EXCEPT ![path] = EnableFrontMatter(path, frontmatter[path])]
          /\ command' = <<"enable-publishing", path>>
    /\ notice' = ""
    /\ UNCHANGED <<isSyncing, folderToPublish, activeFile, publishes, rendererVars>>

\* lines 860-898: disable-publishing, offered when editorCheckCallback(true)
\* returns true and then run with checking = false
DisablePublishing ==
    /\ ~Draining
    /\ activeFile # <<>>
    /\ LET path == activeFile[1]
       IN /\ enabledForPublishing(path, frontmatter[path])
          /\ frontmatter' =
                [frontmatter EXCEPT ![path] = DisableFrontMatter(path, frontmatter[path])]
          /\ command' = <<"disable-publishing", path>>
    /\ notice' = ""
    /\ UNCHANGED <<isSyncing, folderToPublish, activeFile, publishes, rendererVars>>

PluginNext ==
    \/ OpenFile
    \/ SaveSettings
    \/ RibbonClick
    \/ PublishCurrent
    \/ PublishAll
    \/ DoPublishResolves
    \/ DoPublishRejects
    \/ OpenCompletedModal
    \/ OpenErrorModal
    \/ Finally
    \/ EnablePublishing
    \/ DisablePublishing

PluginSpec == PluginInit /\ [][PluginNext]_vars

----------------------------------------------------------------------------
(* C23 *)

\* C23: no doPublish call is made, and isSyncing is not set, while
\* settings.folderToPublish is not configured, whether the trigger is the
\* ribbon icon, publish-all or publish-current.
C23_FolderValidation ==
    \A k \in 1..Len(publishes) : publishes[k].folderToPublish # ""

----------------------------------------------------------------------------
(* C25 *)

\* the frontmatter holds connie-publish with this value
HasConniePublish(fm, value) ==
    IF ConniePublish \in DOMAIN fm THEN fm[ConniePublish] = value ELSE FALSE

\* C25: after enable-publishing has run on a note its frontmatter holds
\* connie-publish: true, and after disable-publishing has run on a note its
\* frontmatter holds connie-publish: false, inside and outside of the folder
\* to publish.
C25_EnableDisable ==
    Len(command) = 2 =>
        /\ command[1] = "enable-publishing" =>
                HasConniePublish(frontmatter[command[2]], TRUE)
        /\ command[1] = "disable-publishing" =>
                HasConniePublish(frontmatter[command[2]], FALSE)

----------------------------------------------------------------------------
(* C26 *)

\* C26: whatever the order of ribbon clicks and publish-current / publish-all
\* invocations, at most one doPublish call is in flight, and a trigger handled
\* while isSyncing is true makes no doPublish call.
C26_SinglePublish ==
    /\ [](Cardinality(InFlight) <= 1)
    /\ [][isSyncing => Len(publishes') = Len(publishes)]_vars

C26_Witness ==
    /\ isSyncing
    /\ Len(publishes) = 1
    /\ publishes[1].caller = "ribbon"
    /\ publishes[1].state = "pending"
    /\ command = <<"publish-all">>

----------------------------------------------------------------------------
(* C27 *)

\* C27: isSyncing is true exactly while a doPublish call is in flight: it is
\* set with the call only, and it is false again once the call has settled
\* and its handlers have run, resolved or rejected, so that the next trigger
\* can start a publish.
C27_SyncingReleased == isSyncing <=> InFlight # {}

C27_Witness ==
    /\ Len(publishes) = 2
    /\ publishes[1].state = "finished"
    /\ publishes[1].modal = "error"
    /\ publishes[2].state = "pending"
    /\ isSyncing

----------------------------------------------------------------------------
(* C24 *)

\* the charts the loop has been through
ChartsDone == 1..(chartIdx - 1)

\* C24: while a batch of an external-process renderer is in its loop, two
\* charts with different names have different input files and different output
\* files, no input file is the output file of a chart or the config file, no
\* output file is the config file, and so the directory holds one input and
\* one output file for every name rendered without a failure.
C24_DisjointScratchPaths ==
    pc = "scratch_loop" =>
        /\ \A i, j \in 1..Len(charts) :
            /\ charts[i].name # charts[j].name =>
                /\ InputFile(renderer, charts[i].name) # InputFile(renderer, charts[j].name)
                /\ OutputFile(renderer, charts[i].name) # OutputFile(renderer, charts[j].name)
            /\ InputFile(renderer, charts[i].name) # OutputFile(renderer, charts[j].name)
        /\ \A i \in 1..Len(charts) :
            /\ InputFile(renderer, charts[i].name) \notin ConfigFiles(renderer)
            /\ OutputFile(renderer, charts[i].name) \notin ConfigFiles(renderer)
        /\ failedCharts = {} =>
            Cardinality(tempFiles \ ConfigFiles(renderer)) =
                2 * Cardinality({charts[i].name : i \in ChartsDone})

C24_Witness ==
    /\ pc = "scratch_loop"
    /\ renderer = ThemedCliRenderer
    /\ chartIdx = 3
    /\ failedCharts = {}
    /\ charts[1].name # charts[2].name
    /\ Cardinality(tempFiles) = 5

----------------------------------------------------------------------------
(* C28 *)

\* C28: transform called with no chart returns the empty image map, and
\* neither captureMermaidCharts (no scratch directory, no Map) nor
\* uploadBuffer has been called.
C28_EmptyBatch ==
    pc \in {"transformed", "done"} /\ Len(charts) = 0 =>
        /\ imageMap = EmptyRecord
        /\ tempDir = "none"
        /\ capturedCharts = <<>>
        /\ uploadCalls = <<>>

C28_Witness ==
    /\ pc = "transformed"
    /\ Len(adf) = 2
    /\ charts = <<>>
    /\ renderer = "MermaidCLIRenderer"
    /\ imageMap = EmptyRecord

----------------------------------------------------------------------------
(* C29 *)

\* C29: load applied a second time, with the same image map, to the document
\* the first application returned gives that document again.
C29_LoadIdempotent ==
    pc = "loaded_again" => afterAdf = load(adf, imageMap)

C29_Witness ==
    /\ pc = "loaded_again"
    /\ \E i \in 1..Len(adf) :
        /\ IsMermaidNode(adf[i])
        /\ afterAdf[i].type = "mediaSingle"
    /\ \E i \in 1..Len(adf) :
        /\ IsMermaidNode(adf[i])
        /\ afterAdf[i] = adf[i]

============================================================================
